---- MODULE Spec2Model ----
(***************************************************************************)
(* Verification model of the compliance-operator-dashboard core:           *)
(*   - the WebSocket broadcast hub       (internal/ws, Hub)                *)
(*   - the install/uninstall orchestrator (internal/compliance/operator.go)*)
(*   - the remediation engine   (internal/compliance/remediation.go)       *)
(* One specification per component; the variables of the other components  *)
(* stay unchanged in each.                                                 *)
(***************************************************************************)
EXTENDS Integers, Sequences, FiniteSets, TLC

(***************************************************************************)
(* Bounds of the model.                                                    *)
(***************************************************************************)
\* number of observer (Client) objects that exist
NumClients == 2
\* capacity of a client's send channel
SendCap == 1
\* capacity of the hub's broadcast channel: make(chan Message, 256), scaled down
BroadcastCap == 1
\* number of Broadcast calls made by publishers
MaxMsgs == 3
\* observers 1..MaxOwnUnregister call Unregister from outside the Run loop, once each
MaxOwnUnregister == 1

\* instances of one resource kind that Uninstall finds in the namespace
MaxItems == 1
\* the List request of Uninstall may fail for each of the first this many kinds
MaxListFailures == 1

\* ApplyRemediation calls made one after another on the same remediation
MaxApplies == 2
\* writes other actors make to the target object or the remediation record
MaxOtherWrites == 2
\* RemoveRemediation calls made on the same remediation
MaxRemoves == 2
\* calls of resolveGVR made with the same arguments
MaxResolves == 2
\* remediations ListRemediations finds in the namespace
MaxRems == 2
\* events one watchResource goroutine receives
MaxEvents == 3
\* digits of the minor number of a requested version
MaxMinorLen == 2
\* nodes of the cluster CheckARMCompatibility lists
MaxNodes == 2
\* pods, and ProfileBundles, a poll of a readiness wait finds
MaxPods == 2
\* Install runs started together
NumRuns == 2

Clients == 1..NumClients

VARIABLES
    \* ---- Hub ----
    clients,          \* h.clients: set of registered clients
    register,         \* callers blocked in h.register <- client
    unregister,       \* per client, number of senders blocked in h.unregister <- c
    broadcast,        \* h.broadcast: buffered channel of messages
    send,             \* client.send: per client buffered channel
    closeCount,       \* per client, number of close(client.send) executed
    running,          \* Hub.Run has not returned
    cancelled,        \* ctx.Done() is closed
    panicked,         \* Run hit a send on / close of a closed channel
    \* ---- Hub: observation (history) ----
    received,         \* per client, messages read from client.send so far
    nextId,           \* id of the next message handed to Broadcast
    dropped,          \* ids Broadcast dropped because h.broadcast was full
    offered,          \* per client, ids delivered while registered and not full
    overflowAt,       \* per client, id of the first message that found it full
    registerCalled,   \* clients for which Register was called
    ownUnregister,    \* per client, number of own Unregister calls
    \* ---- Install / Uninstall run ----
    orchOp,           \* which run: "install", "uninstall" ("none": no run)
    orchPc,           \* position of the run: the next send or wait
    orchI,            \* loop counter i of the current loop
    emitted,          \* every record sent on the progress channel so far
    consumed,         \* how many of them the consumer has taken
    chanClosed,       \* number of close(progress) executed
    orchCancelled,    \* ctx.Done() of the run is closed
    calls,            \* mutating control-plane requests made, in order
    orchFailed,       \* step at which a hard step failed ("": none)
    softFails,        \* tolerated failures met so far: "rbac", "pods", "bundles"
    nsState,          \* the target namespace: "absent", "active", "terminating"
    nsWait,           \* how the wait for namespace deletion ended
    answers,          \* the answers to the requests of the latest step that examines them
    clientNil,        \* client == nil
    coRef,            \* requested version reference ("": resolve latest)
    useRedHat,        \* result of CheckRedHatOperator
    csvName,          \* installedCSV read by waitForCSV
    pendingErr,       \* <<step, message>> of the error record about to be sent
    crItems,          \* instances of each managed kind present in the namespace
    listFails,        \* indices of the kinds whose List request fails
    \* ---- waitForPodsReady / waitForProfileBundles on their own ----
    pollKind,         \* which wait runs: "pods" or "bundles"
    pollI,            \* the loop counter i
    pollSeen,         \* what the latest List returned
    pollOut,          \* "running", or what the wait returned
    pollCtxDone,      \* the context of the wait is cancelled
    \* ---- concurrent Install runs on one namespace ----
    pairIn,           \* per run the result of CheckRedHatOperator; the cluster
    pairPc,           \* per run, the place in its sequence of requests
    pairOut,          \* per run, "" or the step of its terminal record
    pairSeen,         \* per run, the answers to its creates so far
    pairObjects,      \* the objects of the cluster the runs create
    \* ---- Remediation engine ----
    remClientNil,     \* client == nil in the remediation calls
    remRecord,        \* the ComplianceRemediation record in the control plane
    objects,          \* the other objects of the control plane, by address
    rvClock,          \* last resourceVersion the control plane handed out
    remPc,            \* position of the running ApplyRemediation call
    remLocal,         \* its locals: rem, remObj, gvr, objNamespace, objName
    remResults,       \* what the calls returned, in order
    \* ---- Remediation engine: observation (history) ----
    remPaths,         \* per returned call, how the target was written
    otherWrites,      \* number of writes by other actors so far
    \* ---- resolveGVR on its own ----
    gvrIn,            \* the arguments: kind, apiVersion, defaultNamespace
    gvrOut,           \* what the calls made so far returned
    \* ---- CheckARMCompatibility on its own ----
    armIn,            \* the arguments and the node listing
    armOut,           \* what the call returned
    \* ---- ApplyBySeverity ----
    batchIn,          \* client == nil, the requested severity, what
                      \* ListRemediations answers
    batchPc,          \* position of the call
    batchI,           \* index of rem in the range loop
    batchResult,      \* result, err of the ApplyRemediation call just made
    progress,         \* the values sent on the progress channel, in order
    batchCtxDone,     \* ctx is cancelled
    batchTicks,       \* ticks the running pool wait has taken
    batchOut,         \* the returned error and whether progress is closed
    \* ---- ApplyBySeverity: observation (history) ----
    batchLog,         \* apply attempts, sends and pool waits, in order
    \* ---- Watcher.watchResource ----
    resourceType,     \* the watched resource type
    watchPc,          \* position of the goroutine
    backoff,          \* backoff, in seconds
    watchCtxDone,     \* ctx is cancelled
    watchEvents,      \* events received from ResultChan, in order
    watchSent,        \* messages handed to Hub.Broadcast, in order
    \* ---- Watcher.watchResource: observation (history) ----
    watchPrev,        \* outcome of the previous Watch call and the wait made
    watchCur          \* outcome of the last Watch call and the wait made

hubVars == <<clients, register, unregister, broadcast, send, closeCount,
             running, cancelled, panicked, received, nextId, dropped,
             offered, overflowAt, registerCalled, ownUnregister>>

orchVars == <<orchOp, orchPc, orchI, emitted, consumed, chanClosed,
              orchCancelled, calls, orchFailed, softFails, nsState, nsWait, answers,
              clientNil, coRef, useRedHat, csvName, pendingErr, crItems,
              listFails>>

remVars == <<remClientNil, remRecord, objects, rvClock, remPc, remLocal,
             remResults, remPaths, otherWrites>>

gvrVars == <<gvrIn, gvrOut>>

armVars == <<armIn, armOut>>

batchVars == <<batchIn, batchPc, batchI, batchResult, progress, batchCtxDone,
               batchTicks, batchOut, batchLog>>

watchVars == <<resourceType, watchPc, backoff, watchCtxDone, watchEvents,
               watchSent, watchPrev, watchCur>>

pollVars == <<pollKind, pollI, pollSeen, pollOut, pollCtxDone>>

pairVars == <<pairIn, pairPc, pairOut, pairSeen, pairObjects>>

vars == <<hubVars, orchVars, remVars, gvrVars, armVars, batchVars, watchVars,
         pollVars,
         pairVars>>

\* a step of a readiness wait leaves the other components alone
PollOnly ==
    UNCHANGED <<hubVars, orchVars, remVars, gvrVars,
                armVars, batchVars, watchVars,
                pairVars>>

\* a step of one of the concurrent Install runs leaves the other components alone
PairOnly ==
    UNCHANGED <<hubVars, orchVars, remVars, gvrVars,
                armVars, batchVars, watchVars, pollVars>>

\* steps of the hub leave the other components alone
HubOnly ==
    UNCHANGED <<orchVars, remVars, gvrVars, batchVars, watchVars, armVars,
                pollVars,
                pairVars>>

\* steps of an Install / Uninstall run leave the other components alone
OrchOnly ==
    UNCHANGED <<hubVars, remVars, gvrVars, batchVars, watchVars, armVars,
                pollVars,
                pairVars>>

\* a step of the remediation engine leaves the other components alone
RemOnly ==
    UNCHANGED <<hubVars, orchVars, gvrVars, batchVars, watchVars, armVars,
                pollVars,
                pairVars>>

\* a call of resolveGVR touches nothing
GvrOnly ==
    UNCHANGED <<hubVars, orchVars, remVars, batchVars, watchVars, armVars,
                pollVars,
                pairVars>>

\* a call of CheckARMCompatibility touches nothing
ArmOnly ==
    UNCHANGED <<hubVars, orchVars, remVars, gvrVars, batchVars, watchVars,
                pollVars,
                pairVars>>

\* a step of ApplyBySeverity leaves the other components alone
BatchOnly ==
    UNCHANGED <<hubVars, orchVars, remVars, gvrVars, watchVars, armVars,
                pollVars,
                pairVars>>

\* a step of the watcher leaves the other components alone
WatchOnly ==
    UNCHANGED <<hubVars, orchVars, remVars, gvrVars, batchVars, armVars,
                pollVars,
                pairVars>>

(***************************************************************************)
(* Helpers                                                                 *)
(***************************************************************************)
Range(s) == {s[i] : i \in 1..Len(s)}

StrictlyIncreasing(s) == \A i, j \in 1..Len(s) : i < j => s[i] < s[j]

(***************************************************************************)
(* Hub                                                                     *)
(***************************************************************************)
\* NewHub
HubInit ==
    /\ clients = {}
    /\ register = {}
    /\ unregister = [c \in Clients |-> 0]
    /\ broadcast = <<>>
    /\ send = [c \in Clients |-> <<>>]
    /\ closeCount = [c \in Clients |-> 0]
    /\ running = TRUE
    /\ cancelled = FALSE
    /\ panicked = FALSE
    /\ received = [c \in Clients |-> <<>>]
    /\ nextId = 1
    /\ dropped = {}
    /\ offered = [c \in Clients |-> {}]
    /\ overflowAt = [c \in Clients |-> 0]
    /\ registerCalled = {}
    /\ ownUnregister = [c \in Clients |-> 0]

\* select { case h.broadcast <- msg: default: log }: the channel after the call
BroadcastSendDropOldest(q, m) ==
    IF Len(q) < BroadcastCap THEN Append(q, m) ELSE Append(Tail(q), m)

BroadcastSend(q, m) ==
    IF Len(q) < BroadcastCap THEN Append(q, m) ELSE q

\* Hub.Broadcast(msg): never waits, whatever the state of Run
Broadcast ==
    /\ nextId <= MaxMsgs
    /\ broadcast' = BroadcastSend(broadcast, nextId)
    /\ dropped' = IF Len(broadcast) < BroadcastCap THEN dropped
                  ELSE dropped \cup {nextId}
    /\ nextId' = nextId + 1
    /\ UNCHANGED <<clients, register, unregister, send, closeCount, running,
                   cancelled, panicked, received, offered, overflowAt,
                   registerCalled, ownUnregister>>
    /\ HubOnly

\* Hub.Register(client): the caller blocks in h.register <- client
Register(c) ==
    /\ c \notin registerCalled
    /\ registerCalled' = registerCalled \cup {c}
    /\ register' = register \cup {c}
    /\ UNCHANGED <<clients, unregister, broadcast, send, closeCount, running,
                   cancelled, panicked, received, nextId, dropped, offered,
                   overflowAt, ownUnregister>>
    /\ HubOnly

\* Hub.Unregister(client): the caller blocks in h.unregister <- client
Unregister(c) ==
    /\ c <= MaxOwnUnregister
    /\ ownUnregister[c] = 0
    /\ ownUnregister' = [ownUnregister EXCEPT ![c] = @ + 1]
    /\ unregister' = [unregister EXCEPT ![c] = @ + 1]
    /\ UNCHANGED <<clients, register, broadcast, send, closeCount, running,
                   cancelled, panicked, received, nextId, dropped, offered,
                   overflowAt, registerCalled>>
    /\ HubOnly

\* the context handed to Run is cancelled
Cancel ==
    /\ ~cancelled
    /\ cancelled' = TRUE
    /\ UNCHANGED <<clients, register, unregister, broadcast, send, closeCount,
                   running, panicked, received, nextId, dropped, offered,
                   overflowAt, registerCalled, ownUnregister>>
    /\ HubOnly

RegistryKeptOnDone(registry) == registry

\* the registry once the loop of the ctx.Done case has deleted every client
RegistryAfterDone(registry) == {}

\* Run, case <-ctx.Done(): close every client, clear the registry, return
RunDone ==
    /\ running /\ cancelled
    /\ closeCount' = [c \in Clients |->
                        IF c \in clients THEN closeCount[c] + 1 ELSE closeCount[c]]
    /\ panicked' = (panicked \/ \E c \in clients : closeCount[c] > 0)
    /\ clients' = RegistryAfterDone(clients)
    /\ running' = FALSE
    /\ UNCHANGED <<register, unregister, broadcast, send, cancelled, received,
                   nextId, dropped, offered, overflowAt, registerCalled,
                   ownUnregister>>
    /\ HubOnly

\* Run, case client := <-h.register
RunRegister(c) ==
    /\ running
    /\ c \in register
    /\ register' = register \ {c}
    /\ clients' = clients \cup {c}
    /\ UNCHANGED <<unregister, broadcast, send, closeCount, running, cancelled,
                   panicked, received, nextId, dropped, offered, overflowAt,
                   registerCalled, ownUnregister>>
    /\ HubOnly

\* if _, ok := h.clients[client]; ok { close; delete }: does the case close?
UnregisterClosesAlways(c, cs) == TRUE

UnregisterCloses(c, cs) == c \in cs

\* Run, case client := <-h.unregister
RunUnregister(c) ==
    /\ running
    /\ unregister[c] > 0
    /\ unregister' = [unregister EXCEPT ![c] = @ - 1]
    /\ IF UnregisterCloses(c, clients)
         THEN /\ closeCount' = [closeCount EXCEPT ![c] = @ + 1]
              /\ panicked' = (panicked \/ closeCount[c] > 0)
              /\ running' = (running /\ closeCount[c] = 0)
              /\ clients' = clients \ {c}
         ELSE UNCHANGED <<closeCount, panicked, running, clients>>
    /\ UNCHANGED <<register, broadcast, send, cancelled, received, nextId,
                   dropped, offered, overflowAt, registerCalled, ownUnregister>>
    /\ HubOnly

\* select { case client.send <- data: default: go unregister }: the queue after
DeliverToOverwrite(q, m) ==
    IF Len(q) < SendCap THEN Append(q, m) ELSE Append(Tail(q), m)

DeliverTo(q, m) ==
    IF Len(q) < SendCap THEN Append(q, m) ELSE q

\* Run, case msg := <-h.broadcast: marshal once, offer to every client
RunBroadcast ==
    /\ running
    /\ broadcast # <<>>
    /\ LET m == Head(broadcast)
           full == {c \in clients : Len(send[c]) >= SendCap}
       IN /\ broadcast' = Tail(broadcast)
          /\ send' = [c \in Clients |->
                         IF c \in clients /\ closeCount[c] = 0
                         THEN DeliverTo(send[c], m) ELSE send[c]]
          /\ panicked' = (panicked \/ \E c \in clients : closeCount[c] > 0)
          /\ running' = ~(\E c \in clients : closeCount[c] > 0)
          /\ unregister' = [c \in Clients |->
                               IF c \in full THEN unregister[c] + 1
                               ELSE unregister[c]]
          /\ offered' = [c \in Clients |->
                            IF c \in clients \ full THEN offered[c] \cup {m}
                            ELSE offered[c]]
          /\ overflowAt' = [c \in Clients |->
                               IF c \in full /\ overflowAt[c] = 0 THEN m
                               ELSE overflowAt[c]]
    /\ UNCHANGED <<clients, register, closeCount, cancelled, received, nextId,
                   dropped, registerCalled, ownUnregister>>
    /\ HubOnly

\* the observer's writer takes the next message off client.send
ClientReceive(c) ==
    /\ send[c] # <<>>
    /\ received' = [received EXCEPT ![c] = Append(@, Head(send[c]))]
    /\ send' = [send EXCEPT ![c] = Tail(@)]
    /\ UNCHANGED <<clients, register, unregister, broadcast, closeCount,
                   running, cancelled, panicked, nextId, dropped, offered,
                   overflowAt, registerCalled, ownUnregister>>
    /\ HubOnly

(***************************************************************************)
(* Install / Uninstall orchestrator                                         *)
(*                                                                         *)
(* A run is a sequence of steps; every step begins with a send on the      *)
(* progress channel (sendProgress / sendError / sendDone) and then does    *)
(* the work up to the next send.  The channel is the one the request       *)
(* handler makes (capacity ProgressCap) and ranges over.                   *)
(***************************************************************************)
\* progress := make(chan compliance.InstallProgress, 32)
ProgressCapSmall == 2 * 8

ProgressCap == 32

\* for i := 0; i < 30; i++ : attempts of each convergence wait
NsPollAttempts == 30
CsvPollAttempts == 30
PodPollAttempts == 30
BundlePollAttempts == 30

ComplianceCRDsBundlesFirst ==
    << "ProfileBundles", "ComplianceCheckResults", "ComplianceRemediations",
       "ComplianceSuites", "ComplianceScans", "ScanSettingBindings",
       "ScanSettings", "Profiles" >>

\* complianceCRDs, in the order Uninstall walks them
ComplianceCRDs ==
    << "ComplianceCheckResults", "ComplianceRemediations", "ComplianceSuites",
       "ComplianceScans", "ScanSettingBindings", "ScanSettings",
       "ProfileBundles", "Profiles" >>

\* InstallProgress records as the three closures build them
ProgressRec(step, message) ==
    [step |-> step, message |-> message, done |-> FALSE, error |-> ""]

ErrorRec(step, message) ==
    [step |-> step, message |-> message, done |-> TRUE, error |-> message]

DoneRec(step, message) ==
    [step |-> step, message |-> message, done |-> TRUE, error |-> ""]

\* the records waiting in the channel
Chan == SubSeq(emitted, consumed + 1, Len(emitted))

\* progress <- rec can proceed: the channel is open and has room
CanSend == chanClosed = 0 /\ Len(Chan) < ProgressCap

OrchInit ==
    /\ orchOp \in {"install", "uninstall"}
    /\ IF orchOp = "install"
         THEN /\ coRef \in {"", "v1.x"}
              /\ crItems = 0
              /\ listFails = {}
         ELSE /\ coRef = ""
              /\ crItems \in 0..MaxItems
              /\ listFails \in SUBSET (1..MaxListFailures)
    /\ orchPc = "start"
    /\ orchI = 0
    /\ emitted = <<>>
    /\ consumed = 0
    /\ chanClosed = 0
    /\ orchCancelled = FALSE
    /\ calls = <<>>
    /\ orchFailed = ""
    /\ softFails = {}
    /\ nsState \in {"active", "absent"}
    /\ nsWait = "none"
    /\ answers = <<>>
    /\ clientNil \in BOOLEAN
    /\ useRedHat = FALSE
    /\ csvName = ""
    /\ pendingErr = <<>>

\* no run was requested
OrchIdle ==
    /\ orchOp = "none"
    /\ orchPc = "closed"
    /\ orchI = 0
    /\ emitted = <<>>
    /\ consumed = 0
    /\ chanClosed = 0
    /\ orchCancelled = FALSE
    /\ calls = <<>>
    /\ orchFailed = ""
    /\ softFails = {}
    /\ nsState = "absent"
    /\ nsWait = "none"
    /\ answers = <<>>
    /\ clientNil = FALSE
    /\ coRef = ""
    /\ useRedHat = FALSE
    /\ csvName = ""
    /\ pendingErr = <<>>
    /\ crItems = 0
    /\ listFails = {}

\* a hard failure: remember the step, queue the error record
Fail(step, message) ==
    /\ orchFailed' = step
    /\ pendingErr' = <<step, message>>
    /\ orchPc' = "send_error"

\* one send, then the next position
Send(rec) == CanSend /\ emitted' = Append(emitted, rec)

\* ---- environment of a run ----
\* the handler's goroutine: for p := range progress { hub.Broadcast(...) }
Consume ==
    /\ consumed < Len(emitted)
    /\ consumed' = consumed + 1
    /\ UNCHANGED <<orchOp, orchPc, orchI, emitted, chanClosed, orchCancelled,
                   calls, orchFailed, softFails, nsState, nsWait, answers, clientNil,
                   coRef, useRedHat, csvName, pendingErr>>
    /\ UNCHANGED <<crItems, listFails>>
    /\ OrchOnly

\* the context of the run is cancelled
OrchCancel ==
    /\ orchOp # "none" /\ ~orchCancelled /\ orchPc # "closed"
    /\ orchCancelled' = TRUE
    /\ UNCHANGED <<orchOp, orchPc, orchI, emitted, consumed, chanClosed,
                   calls, orchFailed, softFails, nsState, nsWait, answers, clientNil,
                   coRef, useRedHat, csvName, pendingErr>>
    /\ UNCHANGED <<crItems, listFails>>
    /\ OrchOnly

\* the control plane finishes the deletion of the namespace
ClusterFinalizesNamespace ==
    /\ nsState = "terminating"
    /\ nsState' = "absent"
    /\ UNCHANGED <<orchOp, orchPc, orchI, emitted, consumed, chanClosed,
                   orchCancelled, calls, orchFailed, softFails, nsWait, answers,
                   clientNil, coRef, useRedHat, csvName, pendingErr>>
    /\ UNCHANGED <<crItems, listFails>>
    /\ OrchOnly

\* ---- shared by Install and Uninstall ----
\* if client == nil { sendError("init", ...); return }
OrchStart ==
    /\ orchPc = "start"
    /\ IF clientNil
         THEN Fail("init", "Kubernetes client is not connected")
         ELSE /\ orchPc' = IF orchOp = "install" THEN "marketplace" ELSE "cleanup"
              /\ UNCHANGED <<orchFailed, pendingErr>>
    /\ orchI' = IF orchOp = "install" THEN 0 ELSE 1
    /\ UNCHANGED <<orchOp, emitted, consumed, chanClosed, orchCancelled, calls,
                   softFails, nsState, nsWait, answers, clientNil, coRef, useRedHat,
                   csvName>>
    /\ UNCHANGED <<crItems, listFails>>
    /\ OrchOnly

\* sendError(step, message); return
OrchSendError ==
    /\ orchPc = "send_error"
    /\ Send(ErrorRec(pendingErr[1], pendingErr[2]))
    /\ orchPc' = "return"
    /\ UNCHANGED <<orchOp, orchI, consumed, chanClosed, orchCancelled, calls,
                   orchFailed, softFails, nsState, nsWait, answers, clientNil, coRef,
                   useRedHat, csvName, pendingErr>>
    /\ UNCHANGED <<crItems, listFails>>
    /\ OrchOnly

\* defer close(progress)
OrchReturn ==
    /\ orchPc = "return"
    /\ chanClosed' = chanClosed + 1
    /\ orchPc' = "closed"
    /\ UNCHANGED <<orchOp, orchI, emitted, consumed, orchCancelled, calls,
                   orchFailed, softFails, nsState, nsWait, answers, clientNil, coRef,
                   useRedHat, csvName, pendingErr>>
    /\ UNCHANGED <<crItems, listFails>>
    /\ OrchOnly

\* what neither Install nor Uninstall touches while it runs its steps
RunQuiet ==
    UNCHANGED <<orchOp, clientNil, crItems, listFails, consumed, chanClosed,
                orchCancelled>>

\* a step that only sends one record and moves on
SendOnly(op, pc, rec, next) ==
    /\ orchOp = op
    /\ orchPc = pc
    /\ Send(rec)
    /\ orchPc' = next
    /\ UNCHANGED <<orchI, calls, orchFailed, softFails, nsState, nsWait, answers, coRef,
                   useRedHat, csvName, pendingErr>>
    /\ RunQuiet
    /\ OrchOnly

\* select { case <-ctx.Done(): ... case <-time.After(...): }
WaitCancelled == orchCancelled

(***************************************************************************)
(* Install                                                                 *)
(***************************************************************************)
\* where Install goes after CheckMarketplaceHealth
MarketplaceNextIgnoringError(healthy) == "marketplace_ok"

MarketplaceNext(healthy) == IF healthy THEN "marketplace_ok" ELSE "send_error"

\* Step 1: sendProgress("marketplace", checking); CheckMarketplaceHealth
InstallMarketplace ==
    /\ orchOp = "install"
    /\ orchPc = "marketplace"
    /\ Send(ProgressRec("marketplace", "Checking marketplace health..."))
    /\ \E healthy \in BOOLEAN :
         /\ orchPc' = MarketplaceNext(healthy)
         /\ orchFailed' = IF healthy THEN orchFailed ELSE "marketplace"
         /\ pendingErr' = IF healthy THEN pendingErr
                          ELSE <<"marketplace", "Marketplace health check failed">>
    /\ UNCHANGED <<orchI, calls, softFails, nsState, nsWait, answers, coRef, useRedHat,
                   csvName>>
    /\ RunQuiet
    /\ OrchOnly

\* sendProgress("marketplace", healthy); Step 2 begins: if coRef == ""
InstallMarketplaceOk ==
    SendOnly("install", "marketplace_ok",
             ProgressRec("marketplace", "Marketplace is healthy"),
             IF coRef = "" THEN "version_resolve" ELSE "version")

\* sendProgress("version", resolving); GetLatestRelease, fall back to master
InstallVersionResolve ==
    /\ orchOp = "install"
    /\ orchPc = "version_resolve"
    /\ Send(ProgressRec("version", "Resolving latest release from GitHub..."))
    /\ \E found \in BOOLEAN : coRef' = IF found THEN "latest" ELSE "master"
    /\ orchPc' = "version"
    /\ UNCHANGED <<orchI, calls, orchFailed, softFails, nsState, nsWait, answers,
                   useRedHat, csvName, pendingErr>>
    /\ RunQuiet
    /\ OrchOnly

InstallVersionThenMarketplace ==
    SendOnly("install", "version",
             ProgressRec("version", "Using Compliance Operator ref"), "marketplace")

\* sendProgress("version", using ref)
InstallVersion ==
    SendOnly("install", "version",
             ProgressRec("version", "Using Compliance Operator ref"), "arch")

\* Step 3: sendProgress("arch", checking); CheckARMCompatibility
InstallArch ==
    /\ orchOp = "install"
    /\ orchPc = "arch"
    /\ Send(ProgressRec("arch", "Checking cluster architecture..."))
    /\ \E r \in {"error", "incompatible", "arm", "x86"} :
         CASE r = "error" ->
                /\ Fail("arch", "Architecture check failed")
                /\ UNCHANGED orchI
           [] r = "incompatible" ->
                /\ Fail("arch", "Version does not support ARM64")
                /\ UNCHANGED orchI
           [] OTHER ->
                /\ orchPc' = "arch_ok"
                /\ orchI' = IF r = "arm" THEN 1 ELSE 0
                /\ UNCHANGED <<orchFailed, pendingErr>>
    /\ UNCHANGED <<calls, softFails, nsState, nsWait, answers, coRef, useRedHat, csvName>>
    /\ RunQuiet
    /\ OrchOnly

\* sendProgress("arch", ARM64 compatible | x86_64 cluster detected)
InstallArchOk ==
    SendOnly("install", "arch_ok",
             ProgressRec("arch", IF orchI > 0 THEN "ARM64 compatible"
                                 ELSE "x86_64 cluster detected"),
             "namespace")

\* Step 4: sendProgress("namespace", creating); Namespaces().Create
InstallNamespace ==
    /\ orchOp = "install"
    /\ orchPc = "namespace"
    /\ Send(ProgressRec("namespace", "Creating namespace..."))
    /\ calls' = Append(calls, "create:namespace")
    /\ \E r \in {"created", "already exists", "error"} :
         /\ (r = "created") = (nsState = "absent")  \/  r = "error"
         /\ IF r = "error"
              THEN /\ Fail("namespace", "Failed to create namespace")
                   /\ UNCHANGED nsState
              ELSE /\ orchPc' = "namespace_ok"
                   /\ nsState' = "active"
                   /\ UNCHANGED <<orchFailed, pendingErr>>
    /\ UNCHANGED <<orchI, softFails, nsWait, answers, coRef, useRedHat, csvName>>
    /\ RunQuiet
    /\ OrchOnly

\* sendProgress("namespace", ready)
InstallNamespaceOk ==
    SendOnly("install", "namespace_ok",
             ProgressRec("namespace", "Namespace ready"), "source")

\* Step 5: sendProgress("source", checking); CheckRedHatOperator
InstallSource ==
    /\ orchOp = "install"
    /\ orchPc = "source"
    /\ Send(ProgressRec("source", "Checking for Red Hat certified operator..."))
    /\ \E r \in {"redhat", "other catalog", "lookup failed"} :
         useRedHat' = (r = "redhat")
    /\ orchPc' = "install"
    /\ UNCHANGED <<orchI, calls, orchFailed, softFails, nsState, nsWait, answers, coRef,
                   csvName, pendingErr>>
    /\ RunQuiet
    /\ OrchOnly

\* the Subscription either function creates: channel and source of its spec
SubscriptionCall(redhat) ==
    IF redhat THEN "create:subscription:stable@redhat-operators"
    ELSE "create:subscription:alpha@compliance-operator"

InstallCreatesCatalogAlways(redhat) ==
    << "create:catalogsource", "create:operatorgroup", SubscriptionCall(redhat) >>

\* the creates of installRedHatOperator / installCommunityOperator, in order
InstallCreates(redhat) ==
    IF redhat THEN << "create:operatorgroup", SubscriptionCall(redhat) >>
    ELSE << "create:catalogsource", "create:operatorgroup",
            SubscriptionCall(redhat) >>

CreateFailedOnConflict(r) == r # "created"

\* err != nil && !strings.Contains(err.Error(), "already exists")
CreateFailed(r) == r = "error"

\* the first create whose answer ends the function, 0 when none does
RECURSIVE FirstFailed(_, _)
FirstFailed(rs, k) ==
    IF k > Len(rs) THEN 0
    ELSE IF CreateFailed(rs[k]) THEN k ELSE FirstFailed(rs, k + 1)

\* Step 6: sendProgress("install", ...); install the detected channel.
\* Each create tolerates "already exists"; the first other error ends it.
InstallOperator ==
    /\ orchOp = "install"
    /\ orchPc = "install"
    /\ Send(ProgressRec("install",
                        IF useRedHat
                        THEN "Installing Red Hat certified Compliance Operator..."
                        ELSE "Installing community Compliance Operator..."))
    /\ LET creates == InstallCreates(useRedHat) IN
       \E rs \in [1..Len(creates) -> {"created", "already exists", "error"}] :
         LET failAt == FirstFailed(rs, 1) IN
         IF failAt = 0
           THEN /\ calls' = calls \o creates
                /\ answers' = rs
                /\ orchPc' = "csv"
                /\ UNCHANGED <<orchFailed, pendingErr>>
           ELSE /\ calls' = calls \o SubSeq(creates, 1, failAt)
                /\ answers' = SubSeq(rs, 1, failAt)
                /\ Fail("install", IF useRedHat THEN "Red Hat operator install failed"
                                   ELSE "Community operator install failed")
    /\ UNCHANGED <<orchI, softFails, nsState, nsWait, coRef, useRedHat, csvName>>
    /\ RunQuiet
    /\ OrchOnly

\* Step 7: sendProgress("csv", waiting); waitForCSV starts
InstallCsv ==
    /\ orchOp = "install"
    /\ orchPc = "csv"
    /\ Send(ProgressRec("csv", "Waiting for ClusterServiceVersion..."))
    /\ orchPc' = "csv_sub_poll"
    /\ orchI' = 0
    /\ answers' = <<>>
    /\ UNCHANGED <<calls, orchFailed, softFails, nsState, nsWait, coRef,
                   useRedHat, csvName, pendingErr>>
    /\ RunQuiet
    /\ OrchOnly

CsvLoopNeverEnds(i) == TRUE

\* for i := 0; i < 30; i++ : the test of either loop of waitForCSV
CsvLoopContinues(i) == i < CsvPollAttempts

\* waitForCSV, first loop: one attempt to read status.installedCSV
CsvSubPoll ==
    /\ orchOp = "install"
    /\ orchPc = "csv_sub_poll"
    /\ IF CsvLoopContinues(orchI)
         THEN \E populated \in BOOLEAN :
                IF populated
                  THEN /\ csvName' = "csv"
                       /\ orchPc' = "csv_phase_poll"
                       /\ orchI' = 0
                       /\ UNCHANGED <<orchFailed, pendingErr>>
                  ELSE IF WaitCancelled
                         THEN /\ Fail("csv", "CSV wait failed: context canceled")
                              /\ UNCHANGED <<orchI, csvName>>
                         ELSE /\ orchI' = orchI + 1
                              /\ UNCHANGED <<orchPc, csvName, orchFailed, pendingErr>>
         ELSE /\ Fail("csv", "CSV wait failed: installedCSV not populated after timeout")
              /\ UNCHANGED <<orchI, csvName>>
    /\ UNCHANGED <<emitted, calls, softFails, nsState, nsWait, answers, coRef, useRedHat>>
    /\ RunQuiet
    /\ OrchOnly

\* waitForCSV, second loop: one attempt to read the CSV's status.phase
CsvPhasePoll ==
    /\ orchOp = "install"
    /\ orchPc = "csv_phase_poll"
    /\ IF CsvLoopContinues(orchI)
         THEN \E succeeded \in BOOLEAN :
                IF succeeded
                  THEN /\ orchPc' = "csv_ok"
                       /\ UNCHANGED <<orchI, orchFailed, pendingErr>>
                  ELSE IF WaitCancelled
                         THEN /\ Fail("csv", "CSV wait failed: context canceled")
                              /\ UNCHANGED orchI
                         ELSE /\ orchI' = orchI + 1
                              /\ UNCHANGED <<orchPc, orchFailed, pendingErr>>
         ELSE /\ Fail("csv", "CSV wait failed: CSV did not reach Succeeded phase")
              /\ UNCHANGED orchI
    /\ UNCHANGED <<emitted, calls, softFails, nsState, nsWait, answers, coRef, useRedHat,
                   csvName>>
    /\ RunQuiet
    /\ OrchOnly

\* sendProgress("csv", succeeded)
InstallCsvOk ==
    SendOnly("install", "csv_ok", ProgressRec("csv", "CSV succeeded"), "rbac")

\* the creates of applySupplementalRBAC, in order
RbacCreates == << "create:role", "create:rolebinding" >>

\* Step 8: sendProgress("rbac", applying); applySupplementalRBAC (warning only)
InstallRbac ==
    /\ orchOp = "install"
    /\ orchPc = "rbac"
    /\ Send(ProgressRec("rbac", "Applying supplemental RBAC for Job creation..."))
    /\ \E failAt \in 0..Len(RbacCreates) :
         IF failAt = 0
           THEN /\ calls' = calls \o RbacCreates
                /\ UNCHANGED softFails
           ELSE /\ calls' = calls \o SubSeq(RbacCreates, 1, failAt)
                /\ softFails' = softFails \cup {"rbac"}
    /\ orchPc' = "rbac_done"
    /\ UNCHANGED <<orchI, orchFailed, nsState, nsWait, answers, coRef, useRedHat,
                   csvName, pendingErr>>
    /\ RunQuiet
    /\ OrchOnly

\* sendProgress("rbac", applied)
InstallRbacDone ==
    SendOnly("install", "rbac_done",
             ProgressRec("rbac", "Supplemental RBAC applied"), "pods")

\* Step 9: sendProgress("pods", waiting); waitForPodsReady starts
InstallPods ==
    /\ orchOp = "install"
    /\ orchPc = "pods"
    /\ Send(ProgressRec("pods", "Waiting for operator pods to be ready..."))
    /\ orchPc' = "pods_poll"
    /\ orchI' = 0
    /\ UNCHANGED <<calls, orchFailed, softFails, nsState, nsWait, answers, coRef,
                   useRedHat, csvName, pendingErr>>
    /\ RunQuiet
    /\ OrchOnly

\* where Install goes when waitForPodsReady has returned
PodsWaitNextFatal(err) == IF err THEN "send_error" ELSE "pods_done"

PodsWaitNext(err) == "pods_done"

\* waitForPodsReady: one attempt (list pods, all non-completed pods ready?)
PodsPoll ==
    /\ orchOp = "install"
    /\ orchPc = "pods_poll"
    /\ IF orchI < PodPollAttempts
         THEN \E r \in {"list error", "ready", "not ready"} :
                CASE r = "ready" ->
                       /\ orchPc' = PodsWaitNext(FALSE)
                       /\ UNCHANGED <<orchI, softFails>>
                  [] r = "list error" \/ (r = "not ready" /\ WaitCancelled) ->
                       /\ orchPc' = PodsWaitNext(TRUE)
                       /\ softFails' = softFails \cup {"pods"}
                       /\ UNCHANGED orchI
                  [] OTHER ->
                       /\ orchI' = orchI + 1
                       /\ UNCHANGED <<orchPc, softFails>>
         ELSE /\ orchPc' = PodsWaitNext(TRUE)
              /\ softFails' = softFails \cup {"pods"}
              /\ UNCHANGED orchI
    /\ pendingErr' = IF orchPc' = "send_error"
                     THEN <<"pods", "pods not ready">> ELSE pendingErr
    /\ UNCHANGED <<emitted, calls, orchFailed, nsState, nsWait, answers, coRef,
                   useRedHat, csvName>>
    /\ RunQuiet
    /\ OrchOnly

\* sendProgress("pods", ready)
InstallPodsDone ==
    SendOnly("install", "pods_done",
             ProgressRec("pods", "Operator pods are ready"), "bundles")

\* Step 10: sendProgress("bundles", waiting); waitForProfileBundles starts
InstallBundles ==
    /\ orchOp = "install"
    /\ orchPc = "bundles"
    /\ Send(ProgressRec("bundles", "Waiting for ProfileBundles to become VALID..."))
    /\ orchPc' = "bundles_poll"
    /\ orchI' = 0
    /\ UNCHANGED <<calls, orchFailed, softFails, nsState, nsWait, answers, coRef,
                   useRedHat, csvName, pendingErr>>
    /\ RunQuiet
    /\ OrchOnly

\* waitForProfileBundles: one attempt (list bundles, all VALID?)
BundlesPoll ==
    /\ orchOp = "install"
    /\ orchPc = "bundles_poll"
    /\ IF orchI < BundlePollAttempts
         THEN \E r \in {"list error or none", "valid", "not valid"} :
                CASE r = "valid" ->
                       /\ orchPc' = "complete"
                       /\ UNCHANGED <<orchI, softFails>>
                  [] WaitCancelled ->
                       /\ orchPc' = "complete"
                       /\ softFails' = softFails \cup {"bundles"}
                       /\ UNCHANGED orchI
                  [] OTHER ->
                       /\ orchI' = orchI + 1
                       /\ UNCHANGED <<orchPc, softFails>>
         ELSE /\ orchPc' = "complete"
              /\ softFails' = softFails \cup {"bundles"}
              /\ UNCHANGED orchI
    /\ UNCHANGED <<emitted, calls, orchFailed, nsState, nsWait, answers, coRef,
                   useRedHat, csvName, pendingErr>>
    /\ RunQuiet
    /\ OrchOnly

\* sendDone("complete", installed successfully)
InstallComplete ==
    SendOnly("install", "complete",
             DoneRec("complete", "Compliance Operator installed successfully"),
             "return")

(***************************************************************************)
(* Uninstall                                                               *)
(***************************************************************************)
\* the patch and delete requests for n instances of one kind, in order
RECURSIVE CleanupCalls(_, _)
CleanupCalls(kind, n) ==
    IF n = 0 THEN <<>>
    ELSE <<"patch:" \o kind, "delete:" \o kind>> \o CleanupCalls(kind, n - 1)

\* Step 1, one kind: sendProgress("cleanup", removing kind); list; for each
\* instance strip the finalizers and delete; errors are ignored
UninstallCleanup ==
    /\ orchOp = "uninstall"
    /\ orchPc = "cleanup"
    /\ Send(ProgressRec("cleanup", "Removing " \o ComplianceCRDs[orchI] \o "..."))
    /\ calls' = IF orchI \in listFails THEN calls
                 ELSE calls \o CleanupCalls(ComplianceCRDs[orchI], crItems)
    /\ \E failed \in {FALSE, (orchI \in listFails) \/ (crItems > 0)} :
          answers' = IF failed THEN <<"failed">> ELSE <<"ok">>
    /\ IF orchI < Len(ComplianceCRDs)
         THEN orchI' = orchI + 1 /\ UNCHANGED orchPc
         ELSE orchPc' = "cleanup_done" /\ UNCHANGED orchI
    /\ UNCHANGED <<orchFailed, softFails, nsState, nsWait, coRef, useRedHat,
                   csvName, pendingErr>>
    /\ RunQuiet
    /\ OrchOnly

\* sendProgress("cleanup", removed)
UninstallCleanupDone ==
    SendOnly("uninstall", "cleanup_done",
             ProgressRec("cleanup", "Compliance resources removed"), "subscription")

\* where Uninstall goes after a deletion whose error is only logged
AfterDeleteFatal(failed, next) == IF failed THEN "send_error" ELSE next

AfterDelete(failed, next) == next

\* a step that sends one record and requests one deletion whose error, if
\* any, is only logged
SendAndDelete(pc, rec, call, next) ==
    /\ orchOp = "uninstall"
    /\ orchPc = pc
    /\ Send(rec)
    /\ calls' = Append(calls, call)
    /\ \E failed \in BOOLEAN :
          /\ answers' = IF failed THEN <<"failed">> ELSE <<"ok">>
          /\ orchPc' = AfterDelete(failed, next)
          /\ pendingErr' = IF orchPc' = "send_error"
                           THEN <<rec.step, "delete failed">> ELSE pendingErr
    /\ UNCHANGED <<orchI, orchFailed, softFails, nsState, nsWait, coRef,
                   useRedHat, csvName>>
    /\ RunQuiet
    /\ OrchOnly

\* Step 2: sendProgress("subscription", deleting); delete the Subscription
UninstallSubscription ==
    SendAndDelete("subscription",
                  ProgressRec("subscription", "Deleting Subscription..."),
                  "delete:subscription", "subscription_done")

\* sendProgress("subscription", deleted)
UninstallSubscriptionDone ==
    SendOnly("uninstall", "subscription_done",
             ProgressRec("subscription", "Subscription deleted"), "csv")

\* Step 3: sendProgress("csv", deleting); list the CSVs, delete each
UninstallCsv ==
    /\ orchOp = "uninstall"
    /\ orchPc = "csv"
    /\ Send(ProgressRec("csv", "Deleting ClusterServiceVersion..."))
    /\ \E listed \in BOOLEAN :
         /\ calls' = IF listed /\ crItems > 0 THEN Append(calls, "delete:csv")
                     ELSE calls
         /\ \E failed \in {~listed, (listed /\ crItems > 0)} :
               answers' = IF failed THEN <<"failed">> ELSE <<"ok">>
    /\ orchPc' = "csv_done"
    /\ UNCHANGED <<orchI, orchFailed, softFails, nsState, nsWait, coRef,
                   useRedHat, csvName, pendingErr>>
    /\ RunQuiet
    /\ OrchOnly

\* sendProgress("csv", deleted)
UninstallCsvDone ==
    SendOnly("uninstall", "csv_done",
             ProgressRec("csv", "ClusterServiceVersion deleted"), "operatorgroup")

\* Step 4: sendProgress("operatorgroup", deleting); delete the OperatorGroup
UninstallOperatorGroup ==
    SendAndDelete("operatorgroup",
                  ProgressRec("operatorgroup", "Deleting OperatorGroup..."),
                  "delete:operatorgroup", "operatorgroup_done")

\* sendProgress("operatorgroup", deleted)
UninstallOperatorGroupDone ==
    SendOnly("uninstall", "operatorgroup_done",
             ProgressRec("operatorgroup", "OperatorGroup deleted"), "catalogsource")

\* Step 5: sendProgress("catalogsource", deleting); delete the CatalogSource
UninstallCatalogSource ==
    SendAndDelete("catalogsource",
                  ProgressRec("catalogsource", "Deleting CatalogSource..."),
                  "delete:catalogsource", "catalogsource_done")

\* sendProgress("catalogsource", deleted)
UninstallCatalogSourceDone ==
    SendOnly("uninstall", "catalogsource_done",
             ProgressRec("catalogsource", "CatalogSource deleted"), "namespace")

\* err != nil && !strings.Contains(err.Error(), "not found")
NamespaceDeleteFailed(r) == r = "error"

\* Step 6: sendProgress("namespace", deleting); Namespaces().Delete;
\* an error other than "not found" is terminal
UninstallNamespace ==
    /\ orchOp = "uninstall"
    /\ orchPc = "namespace"
    /\ Send(ProgressRec("namespace", "Deleting namespace..."))
    /\ calls' = Append(calls, "delete:namespace")
    /\ \E r \in {"accepted", "not found", "error"} :
         /\ (r = "not found") = (nsState = "absent")  \/  r = "error"
         /\ answers' = <<r>>
         /\ IF NamespaceDeleteFailed(r)
              THEN /\ Fail("namespace", "Failed to delete namespace")
                   /\ UNCHANGED <<nsState, orchI>>
              ELSE /\ orchPc' = "ns_poll"
                   /\ orchI' = 0
                   /\ nsState' = IF r = "accepted" THEN "terminating" ELSE nsState
                   /\ UNCHANGED <<orchFailed, pendingErr>>
    /\ UNCHANGED <<softFails, nsWait, coRef, useRedHat, csvName>>
    /\ RunQuiet
    /\ OrchOnly

\* how the wait for the namespace ends once all attempts are used
NsWaitExhausted ==
    /\ orchPc' = "ns_done"
    /\ nsWait' = "exhausted"
    /\ UNCHANGED <<orchFailed, pendingErr>>

\* the wait for namespace deletion: one attempt (Get; gone on any error)
NsPoll ==
    /\ orchOp = "uninstall"
    /\ orchPc = "ns_poll"
    /\ IF orchI < NsPollAttempts
         THEN IF nsState = "absent"
                THEN /\ orchPc' = "ns_done"
                     /\ nsWait' = "gone"
                     /\ UNCHANGED <<orchI, orchFailed, pendingErr>>
                ELSE IF WaitCancelled
                       THEN /\ Fail("namespace", "Timed out waiting for namespace deletion")
                            /\ nsWait' = "cancelled"
                            /\ UNCHANGED orchI
                       ELSE /\ orchI' = orchI + 1
                            /\ UNCHANGED <<orchPc, nsWait, orchFailed, pendingErr>>
         ELSE /\ NsWaitExhausted
              /\ UNCHANGED orchI
    /\ UNCHANGED <<emitted, calls, softFails, nsState, answers, coRef,
                   useRedHat, csvName>>
    /\ RunQuiet
    /\ OrchOnly

\* sendProgress("namespace", deleted)
UninstallNamespaceDone ==
    SendOnly("uninstall", "ns_done",
             ProgressRec("namespace", "Namespace deleted"), "complete")

\* sendDone("complete", uninstalled successfully)
UninstallComplete ==
    SendOnly("uninstall", "complete",
             DoneRec("complete", "Compliance Operator uninstalled successfully"),
             "return")

(***************************************************************************)
(* Remediation engine                                                      *)
(*                                                                         *)
(* The control plane is a store of objects addressed by resource, namespace*)
(* and name; every write stamps a fresh resourceVersion, and an update     *)
(* that carries a resourceVersion is accepted only if it is the current    *)
(* one.  Strings the code takes apart are sequences: a name is its         *)
(* characters, an API version its "/"-separated segments.                  *)
(***************************************************************************)
\* the namespace and name the calls are given
RemNamespace == "openshift-compliance"
RemName == <<"r", "-", "M", "a", "s", "t", "e", "r">>

UpperChars ==
    << "A", "B", "C", "D", "E", "F", "G", "H", "I", "J", "K", "L", "M",
       "N", "O", "P", "Q", "R", "S", "T", "U", "V", "W", "X", "Y", "Z" >>
LowerChars ==
    << "a", "b", "c", "d", "e", "f", "g", "h", "i", "j", "k", "l", "m",
       "n", "o", "p", "q", "r", "s", "t", "u", "v", "w", "x", "y", "z" >>

\* strings.ToLower on a name
ToLower(s) ==
    [i \in 1..Len(s) |->
        IF \E k \in 1..Len(UpperChars) : UpperChars[k] = s[i]
          THEN LowerChars[CHOOSE k \in 1..Len(UpperChars) : UpperChars[k] = s[i]]
          ELSE s[i]]

\* strings.Contains
Contains(s, substr) ==
    \E i \in 0..(Len(s) - Len(substr)) : SubSeq(s, i + 1, i + Len(substr)) = substr

\* strings.ToLower on the kinds the model uses
ToLowerKind(kind) ==
    CASE kind = "ConfigMap" -> "configmap"
      [] kind = "MachineConfig" -> "machineconfig"
      [] kind = "CustomThing" -> "customthing"
      [] kind = "HTTPRoute" -> "httproute"
      [] kind = "APIServer" -> "apiserver"
      [] kind = "KubeletConfig" -> "kubeletconfig"
      [] kind = "IngressController" -> "ingresscontroller"
      [] kind = "OAuth" -> "oauth"
      [] kind = "Secret" -> "secret"
      [] OTHER -> kind

RECURSIVE JoinSlash(_)
JoinSlash(segs) ==
    IF Len(segs) = 0 THEN ""
    ELSE IF Len(segs) = 1 THEN segs[1]
    ELSE segs[1] \o "/" \o JoinSlash(Tail(segs))

\* strings.SplitN(apiVersion, "/", 2)
SplitN2(apiVersion) ==
    IF Len(apiVersion) <= 1 THEN <<JoinSlash(apiVersion)>>
    ELSE <<apiVersion[1], JoinSlash(Tail(apiVersion))>>

GroupVersionResource(group, version, resource) ==
    [group |-> group, version |-> version, resource |-> resource]

\* resolveGVR(kind, apiVersion, defaultNamespace): the resource and the
\* namespace ("" for none) under which an object of this kind is written,
\* and the error it returns ("": nil)
resolveGVR(kind, apiVersion, defaultNamespace) ==
    LET parts == SplitN2(apiVersion)
        group == IF Len(parts) = 2 THEN parts[1] ELSE ""
        version == IF Len(parts) = 2 THEN parts[2] ELSE parts[1]
        resourceName == ToLowerKind(kind) \o "s"
    IN CASE kind = "MachineConfig" ->
              [gvr |-> GroupVersionResource("machineconfiguration.openshift.io",
                                            "v1", "machineconfigs"),
               namespace |-> "", err |-> ""]
         [] kind = "APIServer" ->
              [gvr |-> GroupVersionResource("config.openshift.io", "v1", "apiservers"),
               namespace |-> "", err |-> ""]
         [] kind = "KubeletConfig" ->
              [gvr |-> GroupVersionResource("machineconfiguration.openshift.io",
                                            "v1", "kubeletconfigs"),
               namespace |-> "", err |-> ""]
         [] kind = "IngressController" ->
              [gvr |-> GroupVersionResource("operator.openshift.io", "v1",
                                            "ingresscontrollers"),
               namespace |-> "", err |-> ""]
         [] kind = "OAuth" ->
              [gvr |-> GroupVersionResource("config.openshift.io", "v1", "oauths"),
               namespace |-> "", err |-> ""]
         [] kind = "ConfigMap" ->
              [gvr |-> GroupVersionResource(group, version, "configmaps"),
               namespace |-> defaultNamespace, err |-> ""]
         [] kind = "Secret" ->
              [gvr |-> GroupVersionResource(group, version, "secrets"),
               namespace |-> defaultNamespace, err |-> ""]
         [] OTHER ->
              [gvr |-> GroupVersionResource(group, version, resourceName),
               namespace |-> defaultNamespace, err |-> ""]

\* a detectRoleFromObject that searches the name before it reads the label
detectRoleFromObjectNameFirst(obj) ==
    IF Contains(ToLower(obj.name), <<"m", "a", "s", "t", "e", "r">>)
      THEN "master"
    ELSE IF Len(obj.roleLabel) > 0 THEN obj.roleLabel[1]
    ELSE "worker"

\* detectRoleFromObject: the role label if the object has one, else "master"
\* if the lowercased name contains it, else "worker"
detectRoleFromObject(obj) ==
    IF Len(obj.roleLabel) > 0 THEN obj.roleLabel[1]
    ELSE IF Contains(ToLower(obj.name), <<"m", "a", "s", "t", "e", "r">>)
           THEN "master"
           ELSE "worker"

\* detectRole: the role ListRemediations records for a remediation, which
\* ApplyBySeverity hands to waitForMCPReconciliation: the remediation's own
\* role label, else "master" or "worker" if the remediation's lowercased
\* name contains it (in that order), else the role label of the object it
\* embeds, else "worker"; labels is the remediation's own role label,
\* <<>> when absent
detectRole(name, labels, obj) ==
    IF Len(labels) > 0 THEN labels[1]
    ELSE IF Contains(ToLower(name), <<"m", "a", "s", "t", "e", "r">>)
           THEN "master"
    ELSE IF Contains(ToLower(name), <<"w", "o", "r", "k", "e", "r">>)
           THEN "worker"
    ELSE IF Len(obj.roleLabel) > 0 /\ obj.roleLabel[1] # ""
           THEN obj.roleLabel[1]
    ELSE "worker"

\* the role labels a remediation itself may carry
RemediationRoleLabels == {<<>>, <<"master">>, <<"worker">>}

\* an object as the engine handles it; roleLabel is the value of the label
\* machineconfiguration.openshift.io/role, <<>> when the label is absent;
\* resourceVersion 0 stands for the unset one
Object(kind, apiVersion, namespace, name, roleLabel, data) ==
    [kind |-> kind, apiVersion |-> apiVersion, namespace |-> namespace,
     name |-> name, roleLabel |-> roleLabel, data |-> data,
     resourceVersion |-> 0]

NoObject == Object("", <<>>, "", <<>>, <<>>, "")

\* the objects a remediation of a run may embed (spec.current.object)
EmbeddedObjects ==
    { Object("ConfigMap", <<"v1">>, "", <<"c", "m">>, <<>>, "fix"),
      Object("ConfigMap", <<"v1">>, "other-ns", <<>>, <<>>, "fix"),
      Object("MachineConfig", <<"machineconfiguration.openshift.io", "v1">>, "",
             <<"7", "5", "-", "w">>, <<>>, "fix"),
      Object("MachineConfig", <<"machineconfiguration.openshift.io", "v1">>, "",
             <<>>, <<"worker">>, "fix"),
      Object("MachineConfig", <<"machineconfiguration.openshift.io", "v1">>,
             "other-ns", <<"7", "5", "-", "m">>, <<>>, "fix"),
      Object("MachineConfig", <<"machineconfiguration.openshift.io", "v1">>, "",
             <<"w", "o", "r", "k", "e", "r", "-", "M", "a", "s", "t", "e", "r">>,
             <<>>, "fix"),
      Object("CustomThing", <<"example.com", "v1beta1">>, "", <<"c", "t">>,
             <<>>, "fix"),
      Object("", <<"v1">>, "", <<"c", "m">>, <<>>, "fix"),
      Object("ConfigMap", <<>>, "", <<"c", "m">>, <<>>, "fix") }

\* the ComplianceRemediation records a run may start with
RemRecord(exists, hasObject, object) ==
    [exists |-> exists, hasObject |-> hasObject, object |-> object,
     apply |-> FALSE, resourceVersion |-> IF exists THEN 1 ELSE 0]

RemRecords ==
    {RemRecord(FALSE, FALSE, NoObject), RemRecord(TRUE, FALSE, NoObject)}
      \cup {RemRecord(TRUE, TRUE, o) : o \in EmbeddedObjects}

\* the address under which ApplyRemediation writes the object of a record:
\* resolveGVR, the object's own namespace first, the name defaulted
Address(rec) ==
    LET r == resolveGVR(rec.object.kind, rec.object.apiVersion, RemNamespace)
    IN [gvr |-> r.gvr,
        namespace |-> IF rec.object.namespace # "" THEN rec.object.namespace
                      ELSE r.namespace,
        name |-> IF Len(rec.object.name) = 0 THEN RemName ELSE rec.object.name]

\* the object ApplyRemediation submits for a record: the embedded object
\* with its name defaulted to the remediation's
Submitted(rec) == [rec.object EXCEPT !.name = Address(rec).name]

\* the stored objects at an address (none or one)
StoredAt(addr) == {e \in objects : e.address = addr}

Stored(addr, obj, version) ==
    [address |-> addr, object |-> [obj EXCEPT !.resourceVersion = version]]

NoLocal ==
    [rem |-> RemRecord(FALSE, FALSE, NoObject), remObj |-> NoObject,
     address |-> [gvr |-> GroupVersionResource("", "", ""), namespace |-> "",
                  name |-> <<>>],
     path |-> "none"]

RemInit ==
    /\ remClientNil \in BOOLEAN
    /\ remRecord \in RemRecords
    /\ rvClock = 2
    /\ objects \in {{}, {Stored(Address(remRecord),
                                [Submitted(remRecord) EXCEPT !.data = "old"], 2)}}
    /\ remPc = "idle"
    /\ remLocal = NoLocal
    /\ remResults = <<>>
    /\ remPaths = <<>>
    /\ otherWrites = 0

\* no remediation call is made
RemIdle ==
    /\ remClientNil = FALSE
    /\ remRecord = RemRecord(FALSE, FALSE, NoObject)
    /\ rvClock = 0
    /\ objects = {}
    /\ remPc = "idle"
    /\ remLocal = NoLocal
    /\ remResults = <<>>
    /\ remPaths = <<>>
    /\ otherWrites = 0

\* RemediationResult and the error returned with it; the message keeps
\* the arguments of its format string, role "" when there is no reboot hint
Result(applied, message, error) ==
    [nil |-> FALSE, name |-> RemName, applied |-> applied,
     message |-> message, error |-> error, err |-> error # ""]

NoMessage == [format |-> "", kind |-> "", name |-> <<>>, role |-> ""]

\* fmt.Sprintf(format, kind, objName), without a reboot hint
Message(format, kind, name) ==
    [format |-> format, kind |-> kind, name |-> name, role |-> ""]

\* how a returned call dealt with the target: an ApplyRemediation call
\* created it, updated it or wrote nothing; a RemoveRemediation call deleted
\* it, found it absent or did not get as far as the Delete request
ApplyPaths == {"create", "update", "none"}
RemovePaths == {"deleted", "absent", "refused"}

\* the number of calls made so far whose way with the target is in paths,
\* plus the running call if it is at one of the positions
CallCount(paths, positions) ==
    Cardinality({i \in 1..Len(remPaths) : remPaths[i] \in paths})
        + (IF remPc \in positions THEN 1 ELSE 0)

\* return nil, fmt.Errorf("kubernetes client is nil")
NilResult ==
    [nil |-> TRUE, name |-> <<>>, applied |-> FALSE, message |-> NoMessage,
     error |-> "", err |-> TRUE]

\* the call returns: the result is handed to the caller
Return(result, path) ==
    /\ remResults' = Append(remResults, result)
    /\ remPaths' = Append(remPaths, path)
    /\ remPc' = "idle"
    /\ remLocal' = NoLocal

\* a fresh resourceVersion
NextVersion == rvClock + 1

\* ---- other actors on the control plane ----
\* another writer creates or replaces the target object
OtherPutsTarget ==
    /\ otherWrites < MaxOtherWrites
    /\ remRecord.exists /\ remRecord.hasObject
    /\ LET addr == Address(remRecord)
       IN objects' = (objects \ StoredAt(addr))
              \cup {Stored(addr, [Submitted(remRecord) EXCEPT !.data = "other"],
                           NextVersion)}
    /\ rvClock' = NextVersion
    /\ otherWrites' = otherWrites + 1
    /\ UNCHANGED <<remClientNil, remRecord, remPc, remLocal, remResults, remPaths>>
    /\ RemOnly

\* another writer deletes the target object
OtherDeletesTarget ==
    /\ otherWrites < MaxOtherWrites
    /\ remRecord.exists /\ remRecord.hasObject
    /\ StoredAt(Address(remRecord)) # {}
    /\ objects' = objects \ StoredAt(Address(remRecord))
    /\ otherWrites' = otherWrites + 1
    /\ UNCHANGED <<remClientNil, remRecord, rvClock, remPc, remLocal, remResults,
                   remPaths>>
    /\ RemOnly

\* another writer (the operator's controller) changes the remediation record
OtherUpdatesRecord ==
    /\ otherWrites < MaxOtherWrites
    /\ remRecord.exists
    /\ remRecord' = [remRecord EXCEPT !.resourceVersion = NextVersion]
    /\ rvClock' = NextVersion
    /\ otherWrites' = otherWrites + 1
    /\ UNCHANGED <<remClientNil, objects, remPc, remLocal, remResults, remPaths>>
    /\ RemOnly

\* if kind == "" || apiVersion == ""
MissingKindAndVersion(obj) == obj.kind = "" /\ Len(obj.apiVersion) = 0

MissingKindOrVersion(obj) == obj.kind = "" \/ Len(obj.apiVersion) = 0

\* SetNestedField(rem.Object, value, "spec", "apply") and the record as the
\* control plane stores it after the Update
FlagNotWritten(rem, value) == [rem EXCEPT !.resourceVersion = NextVersion]

FlagWritten(rem, value) ==
    [rem EXCEPT !.apply = value, !.resourceVersion = NextVersion]

\* ---- ApplyRemediation ----
\* from the entry to the Create request: nil check, Get of the remediation,
\* spec.current.object, kind and apiVersion, resolveGVR, namespace and name
ApplyRemediationGet ==
    /\ remPc = "idle"
    /\ CallCount(ApplyPaths, {}) < MaxApplies
    /\ IF remClientNil
         THEN Return(NilResult, "none")
       ELSE IF ~remRecord.exists
         THEN Return(Result(FALSE, NoMessage, "getting remediation: not found"),
                     "none")
       ELSE IF ~remRecord.hasObject
         THEN Return(Result(FALSE, NoMessage,
                            "remediation has no spec.current.object"), "none")
       ELSE IF MissingKindOrVersion(remRecord.object)
         THEN Return(Result(FALSE, NoMessage,
                            "remediation object missing kind or apiVersion"),
                     "none")
       ELSE /\ remLocal' = [rem |-> remRecord,
                            remObj |-> Submitted(remRecord),
                            address |-> Address(remRecord),
                            path |-> "none"]
            /\ remPc' = "create"
            /\ UNCHANGED <<remResults, remPaths>>
    /\ UNCHANGED <<remClientNil, remRecord, objects, rvClock, otherWrites>>
    /\ RemOnly

\* Create(remObj): "already exists" when the address is taken
ApplyRemediationCreate ==
    /\ remPc = "create"
    /\ IF StoredAt(remLocal.address) # {}
         THEN /\ remPc' = "get_existing"
              /\ UNCHANGED <<objects, rvClock, remLocal>>
         ELSE /\ objects' = objects \cup
                    {Stored(remLocal.address, remLocal.remObj, NextVersion)}
              /\ rvClock' = NextVersion
              /\ remLocal' = [remLocal EXCEPT !.path = "create"]
              /\ remPc' = "mark"
    /\ UNCHANGED <<remClientNil, remRecord, remResults, remPaths, otherWrites>>
    /\ RemOnly

\* the resourceVersion the update carries: the one just read, if the read
\* succeeded
CarriedVersionUnread(found, existing, own) == own

CarriedVersion(found, existing, own) == IF found THEN existing ELSE own

\* existing, getErr := Get(objName); if getErr == nil { SetResourceVersion }
ApplyRemediationGetExisting ==
    /\ remPc = "get_existing"
    /\ LET found == StoredAt(remLocal.address) # {}
           existing == IF found
                         THEN (CHOOSE e \in StoredAt(remLocal.address) : TRUE)
                                 .object.resourceVersion
                         ELSE 0
       IN remLocal' = [remLocal EXCEPT !.remObj.resourceVersion =
                          CarriedVersion(found, existing, @)]
    /\ remPc' = "update"
    /\ UNCHANGED <<remClientNil, remRecord, objects, rvClock, remResults,
                   remPaths, otherWrites>>
    /\ RemOnly

\* how the control plane answers Update(obj) at an address: the object must
\* exist; a carried resourceVersion must be the current one; whether an
\* update that carries none is accepted depends on the resource
UpdateAnswers(addr, obj) ==
    IF StoredAt(addr) = {} THEN {"not found"}
    ELSE IF obj.resourceVersion = 0 THEN {"ok", "resourceVersion must be specified"}
    ELSE IF obj.resourceVersion =
              (CHOOSE e \in StoredAt(addr) : TRUE).object.resourceVersion
      THEN {"ok"}
      ELSE {"the object has been modified"}

\* Update(remObj); any error ends the call with result.Error set
ApplyRemediationUpdate ==
    /\ remPc = "update"
    /\ \E answer \in UpdateAnswers(remLocal.address, remLocal.remObj) :
         IF answer = "ok"
           THEN /\ objects' = (objects \ StoredAt(remLocal.address)) \cup
                      {Stored(remLocal.address, remLocal.remObj, NextVersion)}
                /\ rvClock' = NextVersion
                /\ remLocal' = [remLocal EXCEPT !.path = "update"]
                /\ remPc' = "mark"
                /\ UNCHANGED <<remResults, remPaths>>
           ELSE /\ Return(Result(FALSE, NoMessage, "applying object: " \o answer),
                          "none")
                /\ UNCHANGED <<objects, rvClock>>
    /\ UNCHANGED <<remClientNil, remRecord, otherWrites>>
    /\ RemOnly

\* spec.apply = true on the record as it was read, Update, error ignored;
\* then the result: Applied, the message, the reboot hint of a MachineConfig
ApplyRemediationMark ==
    /\ remPc = "mark"
    /\ IF remRecord.exists /\ remRecord.resourceVersion = remLocal.rem.resourceVersion
         THEN /\ remRecord' = FlagWritten(remLocal.rem, TRUE)
              /\ rvClock' = NextVersion
         ELSE UNCHANGED <<remRecord, rvClock>>
    /\ Return(Result(TRUE,
                     [format |-> "Applied %s %s",
                      kind |-> remLocal.remObj.kind,
                      name |-> remLocal.address.name,
                      role |-> IF remLocal.remObj.kind = "MachineConfig"
                                 THEN detectRoleFromObject(remLocal.remObj)
                                 ELSE ""],
                     ""),
              remLocal.path)
    /\ UNCHANGED <<remClientNil, objects, otherWrites>>
    /\ RemOnly

\* ---- RemoveRemediation ----
\* from the entry to the Delete request: nil check, Get of the remediation,
\* spec.current.object, kind and apiVersion, resolveGVR, namespace and name
RemoveRemediationGet ==
    /\ remPc = "idle"
    /\ CallCount(RemovePaths, {}) < MaxRemoves
    /\ IF remClientNil
         THEN Return(NilResult, "refused")
       ELSE IF ~remRecord.exists
         THEN Return(Result(FALSE, NoMessage, "getting remediation: not found"),
                     "refused")
       ELSE IF ~remRecord.hasObject
         THEN Return(Result(FALSE, NoMessage,
                            "remediation has no spec.current.object"), "refused")
       ELSE IF MissingKindOrVersion(remRecord.object)
         THEN Return(Result(FALSE, NoMessage,
                            "remediation object missing kind or apiVersion"),
                     "refused")
       ELSE /\ remLocal' = [rem |-> remRecord,
                            remObj |-> remRecord.object,
                            address |-> Address(remRecord),
                            path |-> "refused"]
            /\ remPc' = "delete"
            /\ UNCHANGED <<remResults, remPaths>>
    /\ UNCHANGED <<remClientNil, remRecord, objects, rvClock, otherWrites>>
    /\ RemOnly

\* the result when Delete answers "not found"
AlreadyRemovedIsError(kind, name) ==
    Result(FALSE, NoMessage, "deleting object: not found")

AlreadyRemoved(kind, name) ==
    Result(FALSE, Message("Object %s %s was already removed", kind, name), "")

\* Delete(objName): "not found" ends the call without error and without
\* touching the record
RemoveRemediationDelete ==
    /\ remPc = "delete"
    /\ IF StoredAt(remLocal.address) = {}
         THEN /\ Return(AlreadyRemoved(remLocal.remObj.kind, remLocal.address.name),
                        "absent")
              /\ UNCHANGED objects
         ELSE /\ objects' = objects \ StoredAt(remLocal.address)
              /\ remLocal' = [remLocal EXCEPT !.path = "deleted"]
              /\ remPc' = "unmark"
              /\ UNCHANGED <<remResults, remPaths>>
    /\ UNCHANGED <<remClientNil, remRecord, rvClock, otherWrites>>
    /\ RemOnly

\* spec.apply = false on the record as it was read, Update, error ignored;
\* then the result
RemoveRemediationUnmark ==
    /\ remPc = "unmark"
    /\ IF remRecord.exists /\ remRecord.resourceVersion = remLocal.rem.resourceVersion
         THEN /\ remRecord' = FlagWritten(remLocal.rem, FALSE)
              /\ rvClock' = NextVersion
         ELSE UNCHANGED <<remRecord, rvClock>>
    /\ Return(Result(FALSE,
                     Message("Removed %s %s", remLocal.remObj.kind,
                             remLocal.address.name),
                     ""),
              remLocal.path)
    /\ UNCHANGED <<remClientNil, objects, otherWrites>>
    /\ RemOnly

RemNext ==
    \/ ApplyRemediationGet
    \/ ApplyRemediationCreate
    \/ ApplyRemediationGetExisting
    \/ ApplyRemediationUpdate
    \/ ApplyRemediationMark
    \/ RemoveRemediationGet
    \/ RemoveRemediationDelete
    \/ RemoveRemediationUnmark
    \/ OtherPutsTarget
    \/ OtherDeletesTarget
    \/ OtherUpdatesRecord

(***************************************************************************)
(* resolveGVR as a function of its arguments                               *)
(***************************************************************************)
\* the arguments tried: the kinds of the table, two unmapped kinds, and
\* API versions with no, one and several "/"
GvrKinds ==
    {"MachineConfig", "APIServer", "KubeletConfig", "IngressController",
     "OAuth", "ConfigMap", "Secret", "CustomThing", "HTTPRoute"}

GvrApiVersions ==
    { <<"v1">>, <<"machineconfiguration.openshift.io", "v1">>,
      <<"example.com", "v1beta1">>, <<"a", "b", "c">>, <<>> }

GvrNamespaces == {"openshift-compliance", "ns-x", ""}

GvrInit ==
    /\ gvrIn \in [kind : GvrKinds, apiVersion : GvrApiVersions,
                  defaultNamespace : GvrNamespaces]
    /\ gvrOut = <<>>

\* resolveGVR is not called on its own
GvrIdle ==
    /\ gvrIn = [kind |-> "", apiVersion |-> <<>>, defaultNamespace |-> ""]
    /\ gvrOut = <<>>

\* gvr, namespace, err := resolveGVR(kind, apiVersion, defaultNamespace)
ResolveGVRCall ==
    /\ Len(gvrOut) < MaxResolves
    /\ gvrOut' = Append(gvrOut, resolveGVR(gvrIn.kind, gvrIn.apiVersion,
                                            gvrIn.defaultNamespace))
    /\ UNCHANGED gvrIn
    /\ GvrOnly

GvrNext == ResolveGVRCall

(***************************************************************************)
(* CheckARMCompatibility                                                   *)
(*                                                                         *)
(* Strings are sequences of characters; Go compares strings byte by byte.  *)
(***************************************************************************)
\* the byte of a character of the alphabet of the refs
ByteOf(c) ==
    CASE c = "-" -> 45 [] c = "." -> 46
      [] c = "0" -> 48 [] c = "1" -> 49 [] c = "2" -> 50 [] c = "3" -> 51
      [] c = "4" -> 52 [] c = "5" -> 53 [] c = "6" -> 54 [] c = "7" -> 55
      [] c = "8" -> 56 [] c = "9" -> 57
      [] c = "a" -> 97 [] c = "e" -> 101 [] c = "m" -> 109 [] c = "r" -> 114
      [] c = "s" -> 115 [] c = "t" -> 116 [] c = "v" -> 118

\* Go's < on strings: the first differing byte decides, a proper prefix is
\* smaller
RECURSIVE StringLess(_, _)
StringLess(a, b) ==
    IF Len(b) = 0 THEN FALSE
    ELSE IF Len(a) = 0 THEN TRUE
    ELSE IF a[1] = b[1] THEN StringLess(Tail(a), Tail(b))
    ELSE ByteOf(a[1]) < ByteOf(b[1])

StringGeq(a, b) == ~StringLess(a, b)

\* strings.HasPrefix
HasPrefix(s, prefix) ==
    Len(s) >= Len(prefix) /\ SubSeq(s, 1, Len(prefix)) = prefix

\* strings.TrimPrefix
TrimPrefix(s, prefix) ==
    IF HasPrefix(s, prefix) THEN SubSeq(s, Len(prefix) + 1, Len(s)) ELSE s

\* strings.SplitN(s, ".", 2)[0]: the text before the first ".", all of s
\* when it has none
RECURSIVE BeforeFirstDot(_)
BeforeFirstDot(s) ==
    IF Len(s) = 0 \/ s[1] = "." THEN <<>>
    ELSE <<s[1]>> \o BeforeFirstDot(Tail(s))

\* minor >= "0" && minor < "7"
MinorTooOld(minor) == StringGeq(minor, <<"0">>) /\ StringLess(minor, <<"7">>)

\* the number of arm64 nodes of a listing
RECURSIVE ArmNodes(_)
ArmNodes(nodes) ==
    IF Len(nodes) = 0 THEN 0
    ELSE (IF nodes[1] = "arm64" THEN 1 ELSE 0) + ArmNodes(Tail(nodes))

\* armNodes, compatible, err := CheckARMCompatibility(ctx, client, coRef)
CheckARMCompatibility(clientIsNil, nodes, listErr, ref) ==
    IF clientIsNil
      THEN [armNodes |-> 0, compatible |-> FALSE, err |-> "kubernetes client is nil"]
    ELSE IF listErr
      THEN [armNodes |-> 0, compatible |-> FALSE, err |-> "listing nodes: %w"]
    ELSE IF ArmNodes(nodes) = 0
      THEN [armNodes |-> 0, compatible |-> TRUE, err |-> ""]
    ELSE IF /\ HasPrefix(ref, <<"v", "1", ".">>)
            /\ MinorTooOld(BeforeFirstDot(TrimPrefix(ref, <<"v", "1", ".">>)))
      THEN [armNodes |-> ArmNodes(nodes), compatible |-> FALSE, err |-> ""]
    ELSE [armNodes |-> ArmNodes(nodes), compatible |-> TRUE, err |-> ""]

\* the digits of the minor numbers of a run
MinorDigits == {"0", "1", "2", "6", "7", "9"}

\* the minor numbers as written: no digit, or up to MaxMinorLen digits
MinorTexts == UNION {[1..n -> MinorDigits] : n \in 0..MaxMinorLen}

\* the refs a run may be given
ArmRefs ==
    { <<"v", "1", ".">> \o m \o t : m \in MinorTexts, t \in {<<>>, <<".", "0">>} }
      \cup { <<"m", "a", "s", "t", "e", "r">>, <<"v", "2", ".", "0", ".", "0">>,
             <<"v", "1">>, <<>> }

\* the node listings of a run, by architecture
ArmNodeLists == UNION {[1..n -> {"arm64", "amd64"}] : n \in 0..MaxNodes}

NoArmOut == [returned |-> FALSE, armNodes |-> 0, compatible |-> FALSE, err |-> ""]

ArmInit ==
    /\ armIn \in [clientNil : BOOLEAN, nodes : ArmNodeLists, listErr : BOOLEAN,
                  coRef : ArmRefs]
    /\ armOut = NoArmOut

\* CheckARMCompatibility is not called on its own
ArmIdle ==
    /\ armIn = [clientNil |-> FALSE, nodes |-> <<>>, listErr |-> FALSE,
                coRef |-> <<>>]
    /\ armOut = NoArmOut

CheckARMCompatibilityCall ==
    /\ ~armOut.returned
    /\ LET r == CheckARMCompatibility(armIn.clientNil, armIn.nodes,
                                      armIn.listErr, armIn.coRef)
       IN armOut' = [returned |-> TRUE, armNodes |-> r.armNodes,
                     compatible |-> r.compatible, err |-> r.err]
    /\ UNCHANGED armIn
    /\ ArmOnly

ArmNext == CheckARMCompatibilityCall

(***************************************************************************)
(* waitForPodsReady and waitForProfileBundles                              *)
(*                                                                         *)
(* The pods and the ProfileBundles of the namespace are an input of every  *)
(* poll.                                                                   *)
(***************************************************************************)
\* a pod: status.phase, and whether it has the condition Ready = True
Pods == [phase : {"Running", "Pending", "Succeeded"}, ready : BOOLEAN]

PodLists == UNION {[1..n -> Pods] : n \in 0..MaxPods}

\* the dataStreamStatus of the ProfileBundles
BundleLists == UNION {[1..n -> {"VALID", "PENDING", ""}] : n \in 0..MaxPods}

Listed(items) == [err |-> FALSE, items |-> items]

ListFailed == [err |-> TRUE, items |-> <<>>]

\* the pods the loop does not skip: phase other than Succeeded
Counted(pods) == {k \in 1..Len(pods) : pods[k].phase # "Succeeded"}

\* hasPods && allReady
PodsReady(pods) ==
    /\ Counted(pods) # {}
    /\ \A k \in Counted(pods) : pods[k].ready

\* len(bundles.Items) != 0 and every dataStreamStatus is "VALID"
BundlesValid(bundles) ==
    /\ Len(bundles) # 0
    /\ \A k \in 1..Len(bundles) : bundles[k] = "VALID"

PollInit ==
    /\ pollKind \in {"pods", "bundles"}
    /\ pollI = 0
    /\ pollSeen = ListFailed
    /\ pollOut = "running"
    /\ pollCtxDone = FALSE

\* no wait runs on its own
PollIdle ==
    /\ pollKind = "none"
    /\ pollI = 0
    /\ pollSeen = ListFailed
    /\ pollOut = "running"
    /\ pollCtxDone = FALSE

\* the context is cancelled while the wait runs
PollCancel ==
    /\ pollKind # "none"
    /\ pollOut = "running"
    /\ ~pollCtxDone
    /\ pollCtxDone' = TRUE
    /\ UNCHANGED <<pollKind, pollI, pollSeen, pollOut>>
    /\ PollOnly

\* select { case <-ctx.Done(): return ctx.Err(); case <-time.After(10s): }
\* and the i++ of the loop
PollSleep ==
    IF pollCtxDone
      THEN pollOut' = "context canceled" /\ UNCHANGED pollI
      ELSE pollI' = pollI + 1 /\ UNCHANGED pollOut

\* waitForPodsReady: one turn of the loop, or the return after it
waitForPodsReadyPoll ==
    /\ pollKind = "pods"
    /\ pollOut = "running"
    /\ IF pollI < PodPollAttempts
         THEN \E r \in {ListFailed} \cup {Listed(pods) : pods \in PodLists} :
                /\ pollSeen' = r
                /\ IF r.err
                     THEN pollOut' = "listing pods: %w" /\ UNCHANGED pollI
                     ELSE IF PodsReady(r.items)
                            THEN pollOut' = "nil" /\ UNCHANGED pollI
                            ELSE PollSleep
         ELSE /\ pollOut' = "pods not ready after timeout"
              /\ UNCHANGED <<pollI, pollSeen>>
    /\ UNCHANGED <<pollKind, pollCtxDone>>
    /\ PollOnly

\* waitForProfileBundles: one turn of the loop, or the return after it
waitForProfileBundlesPoll ==
    /\ pollKind = "bundles"
    /\ pollOut = "running"
    /\ IF pollI < BundlePollAttempts
         THEN \E r \in {ListFailed} \cup {Listed(bs) : bs \in BundleLists} :
                /\ pollSeen' = r
                /\ IF ~r.err /\ BundlesValid(r.items)
                     THEN pollOut' = "nil" /\ UNCHANGED pollI
                     ELSE PollSleep
         ELSE /\ pollOut' = "ProfileBundles not VALID after timeout"
              /\ UNCHANGED <<pollI, pollSeen>>
    /\ UNCHANGED <<pollKind, pollCtxDone>>
    /\ PollOnly

PollNext ==
    \/ waitForPodsReadyPoll
    \/ waitForProfileBundlesPoll
    \/ PollCancel

(***************************************************************************)
(* Concurrent Install runs                                                 *)
(*                                                                         *)
(* HandleOperatorInstall starts one goroutine per request; the runs share  *)
(* the namespace and the cluster.  A run is taken by its requests: one     *)
(* create or one wait per step.  The cluster answers a create with         *)
(* "created" or "already exists"; the waits read the same cluster, so      *)
(* whether the ClusterServiceVersion succeeds is the same for all runs.    *)
(***************************************************************************)
Runs == 1..NumRuns

\* the requests of an Install run from step 4 on, in order
InstallRequests(redhat) ==
    <<"create:namespace">> \o InstallCreates(redhat)
      \o <<"wait:csv">> \o RbacCreates \o <<"wait:pods", "wait:bundles">>

\* the step of Install a request belongs to
StepOfRequest(req) ==
    CASE req = "create:namespace" -> "namespace"
      [] req \in {"create:role", "create:rolebinding"} -> "rbac"
      [] req = "wait:csv" -> "csv"
      [] req = "wait:pods" -> "pods"
      [] req = "wait:bundles" -> "bundles"
      [] OTHER -> "install"

\* the object a create names: both Subscriptions have the same name
ObjectOf(req) ==
    IF req \in {SubscriptionCall(TRUE), SubscriptionCall(FALSE)}
      THEN "subscription"
      ELSE CHOOSE o \in {"namespace", "catalogsource", "operatorgroup", "role",
                         "rolebinding"} : req = "create:" \o o

IsCreate(req) == req \notin {"wait:csv", "wait:pods", "wait:bundles"}

PairInit ==
    /\ pairIn \in [redhat : [Runs -> BOOLEAN], csvSucceeds : BOOLEAN]
    /\ pairPc = [r \in Runs |-> 1]
    /\ pairOut = [r \in Runs |-> ""]
    /\ pairSeen = [r \in Runs |-> <<>>]
    /\ pairObjects \in {{}, {"namespace"}}

\* no Install runs are started together
PairIdle ==
    /\ pairIn = [redhat |-> [r \in Runs |-> FALSE], csvSucceeds |-> FALSE]
    /\ pairPc = [r \in Runs |-> 1]
    /\ pairOut = [r \in Runs |-> "idle"]
    /\ pairSeen = [r \in Runs |-> <<>>]
    /\ pairObjects = {}

\* a run ends with sendError(step, ...)
PairFail(r, step) ==
    /\ pairOut' = [pairOut EXCEPT ![r] = step]
    /\ UNCHANGED pairPc

\* a run goes on to request k, or ends with sendDone("complete", ...)
PairGoto(r, k) ==
    IF k > Len(InstallRequests(pairIn.redhat[r]))
      THEN /\ pairOut' = [pairOut EXCEPT ![r] = "complete"]
           /\ UNCHANGED pairPc
      ELSE /\ pairPc' = [pairPc EXCEPT ![r] = k]
           /\ UNCHANGED pairOut

\* one create of run r: the namespace (step 4), a create of
\* installRedHatOperator / installCommunityOperator (step 6), or one of
\* applySupplementalRBAC (step 8), whose error is only logged
PairCreate(r) ==
    /\ pairOut[r] = ""
    /\ LET req == InstallRequests(pairIn.redhat[r])[pairPc[r]]
           answer == IF ObjectOf(req) \in pairObjects THEN "already exists"
                     ELSE "created"
       IN /\ IsCreate(req)
          /\ pairObjects' = pairObjects \cup {ObjectOf(req)}
          /\ pairSeen' = [pairSeen EXCEPT ![r] = Append(@, answer)]
          /\ IF ~CreateFailed(answer)
               THEN PairGoto(r, pairPc[r] + 1)
               ELSE IF StepOfRequest(req) = "rbac"
                      THEN PairGoto(r, pairPc[r] + (IF req = "create:role" THEN 2 ELSE 1))
                      ELSE PairFail(r, StepOfRequest(req))
    /\ UNCHANGED pairIn
    /\ PairOnly

\* one wait of run r: waitForCSV ends the run when it fails; the errors of
\* waitForPodsReady and waitForProfileBundles are only logged
PairWait(r) ==
    /\ pairOut[r] = ""
    /\ LET req == InstallRequests(pairIn.redhat[r])[pairPc[r]]
       IN /\ ~IsCreate(req)
          /\ IF req = "wait:csv" /\ ~pairIn.csvSucceeds
               THEN PairFail(r, "csv")
               ELSE PairGoto(r, pairPc[r] + 1)
    /\ UNCHANGED <<pairIn, pairSeen, pairObjects>>
    /\ PairOnly

PairNext == \E r \in Runs : PairCreate(r) \/ PairWait(r)

(***************************************************************************)
(* ApplyBySeverity                                                         *)
(*                                                                         *)
(* The ComplianceRemediations and ComplianceCheckResults of the namespace  *)
(* are an input; a remediation is named by its place in the listing.       *)
(* ApplyRemediation is taken by its outcome here: its steps are those of   *)
(* the remediation engine above.                                           *)
(***************************************************************************)
\* the severities declared (SeverityHigh, SeverityMedium, SeverityLow)
Severities == {"high", "medium", "low"}

\* strings.ToLower on the severities check results carry
ToLowerSeverity(sev) ==
    CASE sev = "HIGH" -> "high"
      [] sev = "High" -> "high"
      [] sev = "Low" -> "low"
      [] OTHER -> sev

\* a ComplianceRemediation of the namespace with the severity field of the
\* ComplianceCheckResult of the same name (<<>>: there is no such result)
ListedRemediation(kind, role, checkSeverity) ==
    [kind |-> kind, role |-> role, checkSeverity |-> checkSeverity]

ListedRemediations ==
    { ListedRemediation(k[1], k[2], c) :
        k \in { <<"MachineConfig", "master">>, <<"MachineConfig", "worker">>,
                <<"ConfigMap", "worker">> },
        c \in { <<"high">>, <<"HIGH">>, <<"low">>, <<>> } }

RemediationInfo(name, kind, severity, role) ==
    [name |-> name, kind |-> kind, severity |-> severity, role |-> role]

\* ListRemediations: severityMap[name] is the lowercased severity of the
\* check result of that name, "" when there is none
ListRemediations(listed) ==
    [i \in 1..Len(listed) |->
        RemediationInfo(i, listed[i].kind,
                        IF Len(listed[i].checkSeverity) = 0 THEN ""
                        ELSE ToLowerSeverity(listed[i].checkSeverity[1]),
                        listed[i].role)]

RemediationResult(name, applied, message, error) ==
    [name |-> name, applied |-> applied, message |-> message, error |-> error]

NoBatchResult == [result |-> RemediationResult(0, FALSE, "", ""), err |-> ""]

NoBatchOut == [returned |-> FALSE, err |-> "", closed |-> FALSE]

BatchInit ==
    /\ batchIn \in [clientNil : BOOLEAN, severity : Severities,
                    listed : UNION {[1..n -> ListedRemediations] : n \in 0..MaxRems}]
    /\ batchIn.clientNil => batchIn.listed = <<>>
    /\ batchPc = "idle"
    /\ batchI = 0
    /\ batchResult = NoBatchResult
    /\ progress = <<>>
    /\ batchCtxDone = FALSE
    /\ batchTicks = 0
    /\ batchOut = NoBatchOut
    /\ batchLog = <<>>

\* ApplyBySeverity is not called
BatchIdle ==
    /\ batchIn = [clientNil |-> FALSE, severity |-> "high", listed |-> <<>>]
    /\ batchPc = "done"
    /\ batchI = 0
    /\ batchResult = NoBatchResult
    /\ progress = <<>>
    /\ batchCtxDone = FALSE
    /\ batchTicks = 0
    /\ batchOut = NoBatchOut
    /\ batchLog = <<>>

remediations == ListRemediations(batchIn.listed)

BatchReturn(err, closed) ==
    /\ batchOut' = [returned |-> TRUE, err |-> err, closed |-> closed]
    /\ batchPc' = "done"

\* the context is cancelled while the call runs
BatchCancel ==
    /\ batchPc # "done"
    /\ ~batchCtxDone
    /\ batchCtxDone' = TRUE
    /\ UNCHANGED <<batchIn, batchPc, batchI, batchResult, progress, batchTicks,
                   batchOut, batchLog>>
    /\ BatchOnly

\* the nil check, defer close(progress) and ListRemediations
ApplyBySeverityList ==
    /\ batchPc = "idle"
    /\ IF batchIn.clientNil
         THEN /\ BatchReturn("kubernetes client is nil", FALSE)
              /\ UNCHANGED batchI
         ELSE \E listErr \in BOOLEAN :
                IF listErr
                  THEN /\ BatchReturn("listing remediations: %w", TRUE)
                       /\ UNCHANGED batchI
                  ELSE /\ batchPc' = "range"
                       /\ batchI' = 1
                       /\ UNCHANGED batchOut
    /\ UNCHANGED <<batchIn, batchResult, progress, batchCtxDone, batchTicks,
                   batchLog>>
    /\ BatchOnly

SeverityAny(rem, severity) == TRUE

\* the test of the loop: rem.Severity != severity skips the item
SeverityMatches(rem, severity) == rem.severity = severity

\* the head of the range loop: the end of the listing, an item skipped, or
\* ApplyRemediation called on the item
ApplyBySeverityRange ==
    /\ batchPc = "range"
    /\ IF batchI > Len(remediations)
         THEN /\ BatchReturn("", TRUE)
              /\ UNCHANGED <<batchI, batchResult, batchLog>>
         ELSE LET rem == remediations[batchI]
              IN IF ~SeverityMatches(rem, batchIn.severity)
                   THEN /\ batchI' = batchI + 1
                        /\ UNCHANGED <<batchPc, batchResult, batchOut, batchLog>>
                   \* the call may fail at any time and does fail once the
                   \* context is cancelled
                   ELSE /\ \E failed \in {TRUE} \cup {batchCtxDone} :
                             batchResult' =
                               IF failed
                                 THEN [result |-> NoBatchResult.result,
                                       err |-> "apply failed"]
                                 ELSE [result |-> RemediationResult(
                                                    rem.name, TRUE,
                                                    "Applied %s %s", ""),
                                       err |-> ""]
                        /\ batchLog' = Append(batchLog,
                                              [op |-> "apply", name |-> rem.name])
                        /\ batchPc' = "send"
                        /\ UNCHANGED <<batchI, batchOut>>
    /\ UNCHANGED <<batchIn, progress, batchCtxDone, batchTicks>>
    /\ BatchOnly

NoPoolWait(rem) == FALSE

\* the test made after either send: rem.Kind == "MachineConfig"
NeedsPoolWait(rem) == rem.kind = "MachineConfig"

\* the pool waitForMCPReconciliation polls
PoolName(role) == IF role = "" THEN "worker" ELSE role

\* progress <- the error record or *result; then the pool wait is entered
\* for a MachineConfig, the next item otherwise
ApplyBySeveritySend ==
    /\ batchPc = "send"
    /\ LET rem == remediations[batchI]
           sent == IF batchResult.err # ""
                     THEN RemediationResult(rem.name, FALSE, "", batchResult.err)
                     ELSE batchResult.result
       IN /\ progress' = Append(progress, sent)
          /\ IF NeedsPoolWait(rem)
               THEN /\ batchPc' = "wait"
                    /\ batchTicks' = 0
                    /\ batchLog' = batchLog \o
                          << [op |-> "send", name |-> rem.name],
                             [op |-> "wait", name |-> rem.name,
                              pool |-> PoolName(rem.role)] >>
                    /\ UNCHANGED batchI
               ELSE /\ batchPc' = "range"
                    /\ batchI' = batchI + 1
                    /\ batchLog' = Append(batchLog,
                                          [op |-> "send", name |-> rem.name])
                    /\ UNCHANGED batchTicks
    /\ UNCHANGED <<batchIn, batchResult, batchCtxDone, batchOut>>
    /\ BatchOnly

\* the timeout of the pool wait and the period of its ticker, in seconds
McpTimeoutSeconds == 600
McpTickSeconds == 30
\* the tick that falls together with the timeout
McpLastTick == McpTimeoutSeconds \div McpTickSeconds

PoolWaitAbortsOnTimeout(how) ==
    /\ batchLog' = Append(batchLog, [op |-> "waited", name |-> batchI, how |-> how])
    /\ batchPc' = IF how = "timeout" THEN "done" ELSE "range"
    /\ batchI' = batchI + 1

\* waitForMCPReconciliation returns; the loop goes to the next item
PoolWaitEnds(how) ==
    /\ batchLog' = Append(batchLog, [op |-> "waited", name |-> batchI, how |-> how])
    /\ batchPc' = "range"
    /\ batchI' = batchI + 1

\* case <-ticker.C: the pool is read; the wait ends if it reports the
\* condition Updated with status True
waitForMCPReconciliationTick ==
    /\ batchPc = "wait"
    /\ batchTicks < McpLastTick
    /\ batchTicks' = batchTicks + 1
    /\ \E answer \in {"error", "no conditions", "not updated", "updated"} :
          IF answer = "updated"
            THEN PoolWaitEnds("updated")
            ELSE UNCHANGED <<batchPc, batchI, batchLog>>
    /\ UNCHANGED <<batchIn, batchResult, progress, batchCtxDone, batchOut>>
    /\ BatchOnly

\* case <-timeout
waitForMCPReconciliationTimeout ==
    /\ batchPc = "wait"
    /\ batchTicks >= McpLastTick - 1
    /\ PoolWaitEnds("timeout")
    /\ UNCHANGED <<batchIn, batchResult, progress, batchCtxDone, batchTicks,
                   batchOut>>
    /\ BatchOnly

\* case <-ctx.Done()
waitForMCPReconciliationDone ==
    /\ batchPc = "wait"
    /\ batchCtxDone
    /\ PoolWaitEnds("cancelled")
    /\ UNCHANGED <<batchIn, batchResult, progress, batchCtxDone, batchTicks,
                   batchOut>>
    /\ BatchOnly

BatchNext ==
    \/ BatchCancel
    \/ ApplyBySeverityList
    \/ ApplyBySeverityRange
    \/ ApplyBySeveritySend
    \/ waitForMCPReconciliationTick
    \/ waitForMCPReconciliationTimeout
    \/ waitForMCPReconciliationDone

(***************************************************************************)
(* Watcher: one watchResource goroutine                                    *)
(*                                                                         *)
(* Durations are in seconds.  An object is named by the place of its event *)
(* in the order of arrival.                                                *)
(***************************************************************************)
\* backoff := time.Second
BaseBackoff == 1
\* the ceiling of the backoff
MaxBackoff == 60
\* the backoff set when the resource kind is not served
CrdMissingBackoff == 60

watchedResources ==
    {"ComplianceCheckResult", "ComplianceRemediation", "ComplianceSuite",
     "ComplianceScan"}

mapResourceToMessageType(resType) ==
    CASE resType = "ComplianceCheckResult" -> "check_result"
      [] resType = "ComplianceRemediation" -> "remediation"
      [] resType \in {"ComplianceSuite", "ComplianceScan"} -> "scan_status"
      [] OTHER -> "error"

\* the switch on event.Type: the WatchEventType, "" for the default case
WatchEventTypeOf(type) ==
    CASE type = "ADDED" -> "ADDED"
      [] type = "MODIFIED" -> "MODIFIED"
      [] type = "DELETED" -> "DELETED"
      [] OTHER -> ""

\* the events a subscription may deliver: unstructured tells whether
\* event.Object is an *unstructured.Unstructured
IncomingEvents ==
    { [type |-> "ADDED", unstructured |-> TRUE],
      [type |-> "MODIFIED", unstructured |-> TRUE],
      [type |-> "DELETED", unstructured |-> TRUE],
      [type |-> "BOOKMARK", unstructured |-> TRUE],
      [type |-> "ERROR", unstructured |-> FALSE],
      [type |-> "ADDED", unstructured |-> FALSE] }

WatchEvent(eventType, resType, name) ==
    [event_type |-> eventType, resource_type |-> resType, name |-> name]

WsMessage(type, payload) == [type |-> type, payload |-> payload]

Attempt(outcome, wait) == [outcome |-> outcome, wait |-> wait]

NoAttempt == Attempt("none", 0)

WatchInit ==
    /\ resourceType \in watchedResources
    /\ watchPc = "top"
    /\ backoff = BaseBackoff
    /\ watchCtxDone = FALSE
    /\ watchEvents = <<>>
    /\ watchSent = <<>>
    /\ watchPrev = NoAttempt
    /\ watchCur = NoAttempt

\* no watcher is started
WatchIdle ==
    /\ resourceType = ""
    /\ watchPc = "returned"
    /\ backoff = BaseBackoff
    /\ watchCtxDone = FALSE
    /\ watchEvents = <<>>
    /\ watchSent = <<>>
    /\ watchPrev = NoAttempt
    /\ watchCur = NoAttempt

\* the context is cancelled
WatchCancel ==
    /\ watchPc # "returned"
    /\ ~watchCtxDone
    /\ watchCtxDone' = TRUE
    /\ UNCHANGED <<resourceType, watchPc, backoff, watchEvents, watchSent,
                   watchPrev, watchCur>>
    /\ WatchOnly

BackoffKept(current, crdMissing) == current

\* the backoff slept after a failed Watch: the long one if the error says
\* the resource kind is not served, the current one otherwise
BackoffOnFailure(current, crdMissing) ==
    IF crdMissing THEN CrdMissingBackoff ELSE current

NextBackoffUncapped(current) == current * 2

\* backoff *= 2, at most MaxBackoff
NextBackoff(current) ==
    IF current * 2 > MaxBackoff THEN MaxBackoff ELSE current * 2

\* the top of the loop: return if the context is cancelled, else Watch;
\* on success the backoff is reset and processEvents starts
watchResourceWatch ==
    /\ watchPc = "top"
    /\ IF watchCtxDone
         THEN /\ watchPc' = "returned"
              /\ UNCHANGED <<backoff, watchPrev, watchCur>>
         ELSE \E outcome \in {"opened", "crd missing", "other"} :
                /\ watchPrev' = watchCur
                /\ IF outcome = "opened"
                     THEN /\ backoff' = BaseBackoff
                          /\ watchCur' = Attempt(outcome, 0)
                          /\ watchPc' = "events"
                     ELSE /\ backoff' = BackoffOnFailure(backoff,
                                                         outcome = "crd missing")
                          /\ watchCur' = Attempt(outcome, backoff')
                          /\ watchPc' = "sleep"
    /\ UNCHANGED <<resourceType, watchCtxDone, watchEvents, watchSent>>
    /\ WatchOnly

\* case <-time.After(backoff): the backoff is doubled up to the ceiling
watchResourceRetry ==
    /\ watchPc = "sleep"
    /\ backoff' = NextBackoff(backoff)
    /\ watchPc' = "top"
    /\ UNCHANGED <<resourceType, watchCtxDone, watchEvents, watchSent,
                   watchPrev, watchCur>>
    /\ WatchOnly

\* case <-ctx.Done() during the sleep
watchResourceDone ==
    /\ watchPc = "sleep"
    /\ watchCtxDone
    /\ watchPc' = "returned"
    /\ UNCHANGED <<resourceType, backoff, watchCtxDone, watchEvents, watchSent,
                   watchPrev, watchCur>>
    /\ WatchOnly

NoEventForwarded(ev) == FALSE

\* an event is forwarded if its object is unstructured and its type is
\* Added, Modified or Deleted
Forwarded(ev) == ev.unstructured /\ WatchEventTypeOf(ev.type) # ""

\* processEvents receives one event and hands a message to Hub.Broadcast
\* or skips the event
processEventsEvent ==
    /\ watchPc = "events"
    /\ Len(watchEvents) < MaxEvents
    /\ \E ev \in IncomingEvents :
          LET name == Len(watchEvents) + 1
          IN /\ watchEvents' = Append(watchEvents,
                                      [type |-> ev.type,
                                       unstructured |-> ev.unstructured,
                                       name |-> name])
             /\ watchSent' =
                  IF Forwarded(ev)
                    THEN Append(watchSent,
                                WsMessage(mapResourceToMessageType(resourceType),
                                          WatchEvent(WatchEventTypeOf(ev.type),
                                                     resourceType, name)))
                    ELSE watchSent
    /\ UNCHANGED <<resourceType, watchPc, backoff, watchCtxDone, watchPrev,
                   watchCur>>
    /\ WatchOnly

\* the result channel is closed: processEvents returns, the watcher is
\* stopped and the loop starts over
processEventsClosed ==
    /\ watchPc = "events"
    /\ watchPc' = "top"
    /\ UNCHANGED <<resourceType, backoff, watchCtxDone, watchEvents, watchSent,
                   watchPrev, watchCur>>
    /\ WatchOnly

\* case <-ctx.Done() in processEvents
processEventsDone ==
    /\ watchPc = "events"
    /\ watchCtxDone
    /\ watchPc' = "top"
    /\ UNCHANGED <<resourceType, backoff, watchCtxDone, watchEvents, watchSent,
                   watchPrev, watchCur>>
    /\ WatchOnly

WatchNext ==
    \/ WatchCancel
    \/ watchResourceWatch
    \/ watchResourceRetry
    \/ watchResourceDone
    \/ processEventsEvent
    \/ processEventsClosed
    \/ processEventsDone

(***************************************************************************)
(* Specifications of the orchestrator                                      *)
(***************************************************************************)
InstallStep ==
    \/ InstallMarketplace
    \/ InstallMarketplaceOk
    \/ InstallVersionResolve
    \/ InstallVersion
    \/ InstallArch
    \/ InstallArchOk
    \/ InstallNamespace
    \/ InstallNamespaceOk
    \/ InstallSource
    \/ InstallOperator
    \/ InstallCsv
    \/ CsvSubPoll
    \/ CsvPhasePoll
    \/ InstallCsvOk
    \/ InstallRbac
    \/ InstallRbacDone
    \/ InstallPods
    \/ PodsPoll
    \/ InstallPodsDone
    \/ InstallBundles
    \/ BundlesPoll
    \/ InstallComplete

UninstallStep ==
    \/ UninstallCleanup
    \/ UninstallCleanupDone
    \/ UninstallSubscription
    \/ UninstallSubscriptionDone
    \/ UninstallCsv
    \/ UninstallCsvDone
    \/ UninstallOperatorGroup
    \/ UninstallOperatorGroupDone
    \/ UninstallCatalogSource
    \/ UninstallCatalogSourceDone
    \/ UninstallNamespace
    \/ NsPoll
    \/ UninstallNamespaceDone
    \/ UninstallComplete

\* the steps of the running goroutine
OrchRun == OrchStart \/ InstallStep \/ UninstallStep \/ OrchSendError \/ OrchReturn

OrchNext ==
    \/ OrchStart
    \/ InstallStep
    \/ UninstallStep
    \/ OrchSendError
    \/ OrchReturn
    \/ Consume
    \/ OrchCancel
    \/ ClusterFinalizesNamespace

\* one Install or Uninstall run, its consumer and its environment
OrchSpecInit ==
    OrchInit /\ HubInit /\ RemIdle /\ GvrIdle /\ BatchIdle /\ WatchIdle
      /\ ArmIdle
      /\ PairIdle
      /\ PollIdle

OrchSpec == OrchSpecInit /\ [][OrchNext]_vars

\* the same with the run's goroutine scheduled fairly; nothing is assumed
\* of the consumer
OrchFairSpec == OrchSpec /\ WF_vars(OrchRun)

(***************************************************************************)
(* Specification of the hub                                                *)
(***************************************************************************)
Init == HubInit /\ OrchIdle /\ RemIdle /\ GvrIdle /\ BatchIdle /\ WatchIdle
      /\ ArmIdle
      /\ PairIdle
      /\ PollIdle

HubNext ==
    \/ Broadcast
    \/ \E c \in Clients : Register(c)
    \/ \E c \in Clients : Unregister(c)
    \/ Cancel
    \/ RunDone
    \/ \E c \in Clients : RunRegister(c)
    \/ \E c \in Clients : RunUnregister(c)
    \/ RunBroadcast
    \/ \E c \in Clients : ClientReceive(c)

Next == HubNext

\* the hub, its publishers and its observers
Spec == Init /\ [][HubNext]_vars

\* Run is scheduled, and a case of its select that stays ready is taken in
\* the end; the publishers call Broadcast one time less than in Spec
HubFairNext == HubNext /\ nextId' <= MaxMsgs

HubFairSpec ==
    /\ Init
    /\ [][HubFairNext]_vars
    /\ WF_vars(RunDone)
    /\ WF_vars(RunBroadcast)
    /\ \A c \in Clients : WF_vars(RunRegister(c)) /\ WF_vars(RunUnregister(c))

(***************************************************************************)
(* Specification of the remediation engine                                 *)
(***************************************************************************)
RemSpecInit ==
    RemInit /\ HubInit /\ OrchIdle /\ GvrIdle /\ BatchIdle /\ WatchIdle
      /\ ArmIdle
      /\ PairIdle
      /\ PollIdle

\* sequential ApplyRemediation calls on one remediation, and the other
\* actors of the control plane
RemSpec == RemSpecInit /\ [][RemNext]_vars

(***************************************************************************)
(* Specification of resolveGVR                                             *)
(***************************************************************************)
GvrSpecInit ==
    GvrInit /\ HubInit /\ OrchIdle /\ RemIdle /\ BatchIdle /\ WatchIdle
      /\ ArmIdle
      /\ PairIdle
      /\ PollIdle

\* calls of resolveGVR on one triple of arguments
GvrSpec == GvrSpecInit /\ [][GvrNext]_vars

(***************************************************************************)
(* Specification of CheckARMCompatibility                                  *)
(***************************************************************************)
ArmSpecInit ==
    ArmInit /\ HubInit /\ OrchIdle /\ RemIdle /\ GvrIdle /\ BatchIdle /\ WatchIdle
      /\ PairIdle
      /\ PollIdle

\* one call of CheckARMCompatibility on one cluster and one ref
ArmSpec == ArmSpecInit /\ [][ArmNext]_vars

(***************************************************************************)
(* Specification of the readiness waits                                    *)
(***************************************************************************)
PollSpecInit ==
    PollInit /\ HubInit /\ OrchIdle /\ RemIdle /\ GvrIdle /\ BatchIdle /\ WatchIdle
      /\ ArmIdle
      /\ PairIdle

\* one call of waitForPodsReady or of waitForProfileBundles
PollSpec == PollSpecInit /\ [][PollNext]_vars

(***************************************************************************)
(* Specification of concurrent Install runs                                *)
(***************************************************************************)
PairSpecInit ==
    PairInit /\ HubInit /\ OrchIdle /\ RemIdle /\ GvrIdle /\ BatchIdle /\ WatchIdle
      /\ ArmIdle
      /\ PollIdle

\* Install runs started together on one namespace
PairSpec == PairSpecInit /\ [][PairNext]_vars

(***************************************************************************)
(* Specification of ApplyBySeverity                                        *)
(***************************************************************************)
BatchSpecInit ==
    BatchInit /\ HubInit /\ OrchIdle /\ RemIdle /\ GvrIdle /\ WatchIdle
      /\ ArmIdle
      /\ PairIdle
      /\ PollIdle

\* one call of ApplyBySeverity
BatchSpec == BatchSpecInit /\ [][BatchNext]_vars

\* the goroutine that runs ApplyBySeverity is scheduled, its consumer keeps
\* reading the stream, and the timers of the pool wait fire
BatchRun ==
    \/ ApplyBySeverityList
    \/ ApplyBySeverityRange
    \/ ApplyBySeveritySend
    \/ waitForMCPReconciliationTick
    \/ waitForMCPReconciliationTimeout
    \/ waitForMCPReconciliationDone

\* the runs whose check results carry their severity in lower case
BatchFairSpecInit ==
    /\ BatchSpecInit
    /\ \A k \in 1..Len(batchIn.listed) :
          batchIn.listed[k].checkSeverity \in {<<"high">>, <<"low">>}

BatchFairSpec ==
    BatchFairSpecInit /\ [][BatchNext]_vars /\ WF_vars(BatchRun)

(***************************************************************************)
(* Specification of the watcher                                            *)
(***************************************************************************)
WatchSpecInit ==
    WatchInit /\ HubInit /\ OrchIdle /\ RemIdle /\ GvrIdle /\ BatchIdle
      /\ ArmIdle
      /\ PairIdle
      /\ PollIdle

\* one watchResource goroutine
WatchSpec == WatchSpecInit /\ [][WatchNext]_vars

\* the goroutine is scheduled: a select with a ready case is taken, and a
\* case that stays ready is chosen in the end
WatchFairSpec ==
    /\ WatchSpec
    /\ WF_vars(watchResourceWatch)
    /\ WF_vars(watchResourceRetry)
    /\ WF_vars(processEventsDone)

(***************************************************************************)
(* Properties of the hub                                                   *)
(***************************************************************************)
\* what an observer got so far: read already, or still queued
Got(c) == received[c] \o send[c]

C2_NothingAfterOverflow ==
    \A c \in Clients :
        overflowAt[c] # 0 => \A m \in Range(Got(c)) : m < overflowAt[c]

\* C3: an unregister request for an observer that is not registered changes
\* nothing; no queue is closed twice, a registered observer's queue is open,
\* and Run never sends on a closed queue (it would panic).
C3_UnregisterIdempotent ==
    /\ [](/\ ~panicked
          /\ \A c \in Clients : closeCount[c] <= 1
          /\ \A c \in clients : closeCount[c] = 0)
    /\ [][\A c \in Clients :
            (unregister'[c] < unregister[c] /\ c \notin clients)
                => /\ clients' = clients
                   /\ send' = send
                   /\ closeCount' = closeCount
                   /\ running' = running]_vars

\* an overflowing observer that also unregistered itself was closed once, Run
\* has received both its scheduled and its own request, and is still running
\* with another observer registered
C3_Witness ==
    \E c, d \in Clients :
        /\ c # d
        /\ closeCount[c] = 1
        /\ overflowAt[c] # 0
        /\ ownUnregister[c] >= 1
        /\ unregister[c] = 0
        /\ running
        /\ d \in clients

\* C4: Broadcast is always able to return; on a full h.broadcast the message
\* is dropped, is never delivered later, and the channel, the registry and the
\* observers' queues stay as they were.
C4_BroadcastNeverBlocks ==
    /\ [](/\ nextId <= MaxMsgs => ENABLED Broadcast
          /\ Len(broadcast) <= BroadcastCap
          /\ \A m \in dropped :
                /\ m \notin Range(broadcast)
                /\ \A c \in Clients : m \notin Range(Got(c)))
    /\ [][(nextId' # nextId /\ Len(broadcast) = BroadcastCap)
            => /\ broadcast' = broadcast
               /\ dropped' = dropped \cup {nextId}
               /\ clients' = clients
               /\ send' = send]_vars

\* a message was dropped on a full channel while an observer was registered
C4_Witness ==
    /\ dropped # {}
    /\ Len(broadcast) = BroadcastCap
    /\ clients # {}

(***************************************************************************)
(* Properties of the orchestrator                                          *)
(***************************************************************************)
\* the record emitted last
LastRec == emitted[Len(emitted)]

\* positions of the records with done = true
DoneRecords == {i \in 1..Len(emitted) : emitted[i].done}

\* the run did not achieve what it was asked: a hard step failed, or the
\* namespace still resolved at every attempt of the wait for its deletion
RunFailed == orchFailed # "" \/ nsWait = "exhausted"

\* C5 (as claimed): a run emits exactly one record with done = true, it is the
\* last one, the channel is then closed once, and that record carries an error
\* exactly when the run failed.
C5_OneTerminalRecord ==
    /\ chanClosed <= 1
    /\ DoneRecords \subseteq {Len(emitted)}
    /\ chanClosed = 1 =>
          /\ DoneRecords = {Len(emitted)}
          /\ (LastRec.error # "") <=> RunFailed

\* steps of Install whose failure is terminal
HardSteps == {"init", "marketplace", "arch", "namespace", "install", "csv"}

\* C6: once a hard step of Install has failed, Install makes no further
\* control-plane request and emits nothing but the terminal error record of
\* that step; after a marketplace-health failure no namespace creation was
\* ever requested.
C6_HardFailureHalts ==
    /\ [](orchOp = "install" =>
            /\ orchFailed = "marketplace" => "create:namespace" \notin Range(calls)
            /\ (chanClosed = 1 /\ orchFailed # "") =>
                   /\ LastRec.done
                   /\ LastRec.error # ""
                   /\ LastRec.step = orchFailed)
    /\ [][(orchOp = "install" /\ orchFailed # "") =>
            /\ calls' = calls
            /\ nsState' = nsState
            /\ orchFailed' = orchFailed
            /\ emitted' # emitted =>
                  /\ DoneRecords = {}
                  /\ emitted' = Append(emitted, ErrorRec(orchFailed, pendingErr[2]))]_vars

\* the marketplace check failed and the run has ended
C6_Witness ==
    /\ orchOp = "install"
    /\ orchFailed = "marketplace"
    /\ chanClosed = 1
    /\ Len(emitted) = 2

\* the run ended with the record of a successful Install
InstallSucceeded ==
    /\ chanClosed = 1
    /\ LastRec = DoneRec("complete", "Compliance Operator installed successfully")

\* C7: no error record is ever emitted for version lookup, source detection,
\* supplemental RBAC, pod readiness or bundle validity, and once the
\* installed-version wait has succeeded the run reaches the final successful
\* 'complete' record.
C7_SoftFailuresDoNotTerminate ==
    /\ [](orchOp = "install" =>
            /\ orchFailed \in HardSteps \cup {""}
            /\ \A i \in 1..Len(emitted) :
                  emitted[i].error # "" => emitted[i].step \in HardSteps)
    /\ (orchOp = "install" /\ orchPc = "csv_ok") ~> InstallSucceeded

\* version lookup, RBAC, pod wait and bundle wait all failed, and the run
\* ended with success
C7_Witness ==
    /\ orchOp = "install"
    /\ coRef = "master"
    /\ softFails = {"rbac", "pods", "bundles"}
    /\ InstallSucceeded

\* C8 (as claimed): when the namespace still resolved at each of the 30
\* attempts Uninstall ends with an error record, and Uninstall reports success
\* only when an attempt found the namespace no longer resolving.
C8_NamespaceWaitBounded ==
    (orchOp = "uninstall" /\ chanClosed = 1) =>
        /\ nsWait = "exhausted" => LastRec.error # ""
        /\ (LastRec.done /\ LastRec.error = "") => nsWait = "gone"

Applicable ==
    /\ remRecord.exists
    /\ remRecord.hasObject
    /\ remRecord.object.kind # ""
    /\ Len(remRecord.object.apiVersion) > 0

\* the stored target object is the remediation's embedded object (name
\* defaulted), whatever resourceVersion the control plane stamped on it
TargetIsEmbedded ==
    \E e \in StoredAt(Address(remRecord)) :
        [e.object EXCEPT !.resourceVersion = 0] = Submitted(remRecord)

\* C10: when the same applicable remediation is applied several times in
\* sequence and no other actor writes in between, every call returns
\* applied = true with no error, every call after the first writes the
\* target through the update-on-already-exists path, and after each call the
\* target object equals the remediation's embedded object.
C10_ApplyTwiceSucceeds ==
    (~remClientNil /\ Applicable /\ otherWrites = 0
        /\ CallCount(RemovePaths, {"delete", "unmark"}) = 0) =>
        /\ \A i \in 1..Len(remResults) :
             /\ ~remResults[i].nil
             /\ remResults[i].applied
             /\ remResults[i].error = ""
             /\ ~remResults[i].err
        /\ \A i \in 2..Len(remResults) : remPaths[i] = "update"
        /\ (remPc = "idle" /\ Len(remResults) >= 1) => TargetIsEmbedded

\* two calls have returned with nothing else written: the first created the
\* target, the second updated it
C10_Witness ==
    /\ Applicable
    /\ otherWrites = 0
    /\ CallCount(RemovePaths, {"delete", "unmark"}) = 0
    /\ remPc = "idle"
    /\ Len(remResults) = 2
    /\ remPaths[1] = "create"
    /\ remPaths[2] = "update"
    /\ remResults[2].applied
    /\ TargetIsEmbedded

\* a step of the engine leaves the control plane as it was
ControlPlaneUnchanged ==
    /\ objects' = objects
    /\ remRecord' = remRecord
    /\ rvClock' = rvClock

\* C11: a RemoveRemediation call that finds the target object absent returns
\* applied = false with no error; all such calls return the same result, and
\* none of the steps of such a call changes an object or the record.
C11_RemoveAbsentIsNoOp ==
    /\ [](\A i \in 1..Len(remPaths) :
            remPaths[i] = "absent" =>
                /\ ~remResults[i].nil
                /\ ~remResults[i].applied
                /\ remResults[i].error = ""
                /\ ~remResults[i].err
                /\ \A j \in 1..Len(remPaths) :
                      remPaths[j] = "absent" => remResults[j] = remResults[i])
    /\ [][/\ (remPc = "idle" /\ remPc' = "delete") => ControlPlaneUnchanged
          /\ (remPc = "delete" /\ remPc' # remPc /\ StoredAt(remLocal.address) = {})
                => /\ remPc' = "idle"
                   /\ remPaths' = Append(remPaths, "absent")
                   /\ ControlPlaneUnchanged]_vars

\* the target was removed by one call, and the next call found it absent
C11_Witness ==
    \E i \in 1..(Len(remPaths) - 1) :
        /\ remPaths[i] = "deleted"
        /\ remPaths[i + 1] = "absent"
        /\ ~remResults[i + 1].err

\* the resourceVersion of the object stored at an address (0: none stored)
VersionAt(addr) ==
    IF StoredAt(addr) = {} THEN 0
    ELSE (CHOOSE e \in StoredAt(addr) : TRUE).object.resourceVersion

\* C12 (as claimed): ApplyRemediation never issues the update without the
\* resourceVersion it has just read, and an update that replaces the stored
\* object carries the version of the object it replaces.
C12_UpdateCarriesReadVersion ==
    /\ [](remPc = "update" => remLocal.remObj.resourceVersion # 0)
    /\ [][(remPc = "update" /\ remPc' = "mark")
            => remLocal.remObj.resourceVersion = VersionAt(remLocal.address)]_vars

\* C13: when the record is absent, embeds no object, or embeds one that
\* lacks a kind or an API version, every ApplyRemediation and
\* RemoveRemediation call returns an error with applied = false, never gets
\* to a create, update or delete request, and writes neither an object nor
\* the record.
C13_InvalidRecordRefused ==
    /\ [](~Applicable =>
            /\ remPc = "idle"
            /\ \A i \in 1..Len(remResults) :
                  /\ ~remResults[i].applied
                  /\ remResults[i].err
                  /\ remPaths[i] \in {"none", "refused"}
                  /\ ~remClientNil => remResults[i].error # "")
    /\ [][(~Applicable /\ remResults' # remResults) => ControlPlaneUnchanged]_vars

\* an apply and a remove of a record whose embedded object has no kind or no
\* API version were both refused
C13_Witness ==
    /\ ~remClientNil
    /\ remRecord.hasObject
    /\ ~Applicable
    /\ \E i, j \in 1..Len(remResults) :
          /\ remPaths[i] = "none"
          /\ remPaths[j] = "refused"
          /\ remResults[i].error = "remediation object missing kind or apiVersion"
          /\ remResults[j].error = "remediation object missing kind or apiVersion"

\* the record as the control plane would accept it from the running call:
\* it still has the resourceVersion the call read
FlagWriteSucceeds ==
    remRecord.exists /\ remRecord.resourceVersion = remLocal.rem.resourceVersion

\* C14: the step that ends a successful ApplyRemediation returns
\* applied = true with no error and leaves the target object as written,
\* whether or not the flag write succeeds; when it succeeds the record's
\* apply flag is true, and when it fails the record is left as it was.
C14_FlagWriteBestEffort ==
    [][(remPc = "mark" /\ remPc' = "idle") =>
          /\ remResults'[Len(remResults')].applied
          /\ remResults'[Len(remResults')].error = ""
          /\ ~remResults'[Len(remResults')].err
          /\ objects' = objects
          /\ FlagWriteSucceeds => remRecord'.apply
          /\ ~FlagWriteSucceeds => remRecord' = remRecord]_vars

\* an apply returned applied = true although its flag write was rejected:
\* the record was changed by another actor and its flag is still false
C14_Witness ==
    /\ remPc = "idle"
    /\ Len(remResults) = 1
    /\ remPaths[1] \in {"create", "update"}
    /\ remResults[1].applied
    /\ ~remRecord.apply
    /\ TargetIsEmbedded

(***************************************************************************)
(* Properties of resolveGVR                                                *)
(***************************************************************************)
\* group and version as the text before and after the first "/" of the API
\* version (no "/": no group)
ParsedGroup == IF Len(gvrIn.apiVersion) >= 2 THEN gvrIn.apiVersion[1] ELSE ""

ParsedVersion ==
    IF Len(gvrIn.apiVersion) >= 2 THEN JoinSlash(Tail(gvrIn.apiVersion))
    ELSE JoinSlash(gvrIn.apiVersion)

\* the fixed rows of the table that C15 names
FixedRow(kind) ==
    CASE kind = "MachineConfig" ->
           GroupVersionResource("machineconfiguration.openshift.io", "v1",
                                "machineconfigs")
      [] kind = "KubeletConfig" ->
           GroupVersionResource("machineconfiguration.openshift.io", "v1",
                                "kubeletconfigs")
      [] kind = "APIServer" ->
           GroupVersionResource("config.openshift.io", "v1", "apiservers")
      [] kind = "OAuth" ->
           GroupVersionResource("config.openshift.io", "v1", "oauths")

\* lowercase(kind) + "s" of the unmapped kinds tried
Plural(kind) ==
    CASE kind = "CustomThing" -> "customthings"
      [] kind = "HTTPRoute" -> "httproutes"

\* C15 (as claimed): resolveGVR returns no error and the same answer at every
\* call; MachineConfig, KubeletConfig, APIServer and OAuth get their fixed
\* group, version v1 and plural with no namespace; ConfigMap and Secret get
\* the core group and the default namespace; an unmapped kind gets the group
\* and version parsed from its API version, lowercase(kind)+"s" and the
\* default namespace.
C15_ResolveGVRTable ==
    \A i \in 1..Len(gvrOut) :
        /\ gvrOut[i].err = ""
        /\ gvrOut[i] = gvrOut[1]
        /\ gvrIn.kind \in {"MachineConfig", "KubeletConfig", "APIServer", "OAuth"}
              => /\ gvrOut[i].gvr = FixedRow(gvrIn.kind)
                 /\ gvrOut[i].namespace = ""
        /\ gvrIn.kind \in {"ConfigMap", "Secret"}
              => /\ gvrOut[i].gvr.group = ""
                 /\ gvrOut[i].gvr.resource
                        = (IF gvrIn.kind = "ConfigMap" THEN "configmaps" ELSE "secrets")
                 /\ gvrOut[i].namespace = gvrIn.defaultNamespace
        /\ gvrIn.kind \in {"CustomThing", "HTTPRoute"}
              => /\ gvrOut[i].gvr = GroupVersionResource(ParsedGroup, ParsedVersion,
                                                         Plural(gvrIn.kind))
                 /\ gvrOut[i].namespace = gvrIn.defaultNamespace

(***************************************************************************)
(* Properties of ApplyBySeverity                                           *)
(***************************************************************************)
\* the places of the log where ApplyRemediation is called
ApplyAttempts == {p \in 1..Len(batchLog) : batchLog[p].op = "apply"}

IsMachineConfig(name) == remediations[name].kind = "MachineConfig"

\* the operation logged at place p, "" past the end of the log
OpAt(p) == IF p <= Len(batchLog) THEN batchLog[p].op ELSE ""

\* C17: after every apply attempt on a MachineConfig remediation the result
\* is sent, then the pool wait runs and ends by the pool reporting Updated,
\* by the timeout or by cancellation, and only then the next apply starts;
\* an item of another kind is followed by its send and no pool wait.
C17_PoolWaitAfterMachineConfig ==
    \A p \in ApplyAttempts :
        LET name == batchLog[p].name
        IN /\ OpAt(p + 1) \in {"send", ""}
           /\ OpAt(p + 1) = "send"
                => /\ batchLog[p + 1].name = name
                   /\ \E k \in 1..Len(progress) : progress[k].name = name
           /\ IF IsMachineConfig(name)
                THEN /\ OpAt(p + 2) \in {"wait", ""}
                     /\ OpAt(p + 3) \in {"waited", ""}
                     /\ OpAt(p + 3) = "waited"
                          => /\ batchLog[p + 3].name = name
                             /\ batchLog[p + 3].how
                                  \in {"updated", "timeout", "cancelled"}
                     /\ OpAt(p + 4) \in {"apply", ""}
                ELSE OpAt(p + 2) \in {"apply", ""}

\* a failed apply of a MachineConfig, its error record sent, the pool wait
\* run to the timeout, and the next apply started
C17_Witness ==
    \E p \in ApplyAttempts :
        /\ IsMachineConfig(batchLog[p].name)
        /\ \E k \in 1..Len(progress) :
              /\ progress[k].name = batchLog[p].name
              /\ progress[k].error # ""
        /\ OpAt(p + 3) = "waited"
        /\ batchLog[p + 3].how = "timeout"
        /\ OpAt(p + 4) = "apply"

(***************************************************************************)
(* Properties of the watcher                                               *)
(***************************************************************************)
\* C18: the wait after a Watch call that failed because the resource kind is
\* not served is 60 s, however many such failures came before: it is the
\* same as the wait of the failure of that sort just before it.
C18_CrdMissingWaitFixed ==
    /\ watchCur.outcome = "crd missing" => watchCur.wait = 60
    /\ watchCur.outcome = "crd missing" /\ watchPc = "sleep" => backoff = 60
    /\ watchCur.outcome = "crd missing" /\ watchPrev.outcome = "crd missing"
          => watchCur.wait = watchPrev.wait

\* two failures of that sort in a row, the second wait running
C18_Witness ==
    /\ watchPc = "sleep"
    /\ watchPrev.outcome = "crd missing"
    /\ watchCur.outcome = "crd missing"

\* C19: over consecutive failures of the other sort the wait does not
\* decrease and is at most 60 s, and the first such failure after a
\* successful Watch waits 1 s.
C19_BackoffGrowsToCapAndResets ==
    /\ watchCur.outcome = "other" => watchCur.wait <= 60
    /\ watchCur.outcome = "other" /\ watchPc = "sleep" => backoff = watchCur.wait
    /\ watchCur.outcome = "other" /\ watchPrev.outcome = "other"
          => watchPrev.wait <= watchCur.wait
    /\ watchCur.outcome = "other" /\ watchPrev.outcome = "opened"
          => watchCur.wait = 1

\* the wait has doubled from 1 s up to 32 s and is now held at the ceiling
C19_Witness ==
    /\ watchPc = "sleep"
    /\ watchPrev = Attempt("other", 32)
    /\ watchCur = Attempt("other", 60)

\* the messages the events call for, in the order of the events
RECURSIVE ExpectedMessages(_)
ExpectedMessages(events) ==
    IF Len(events) = 0 THEN <<>>
    ELSE LET ev == events[Len(events)]
             before == ExpectedMessages(SubSeq(events, 1, Len(events) - 1))
         IN IF ev.unstructured /\ ev.type \in {"ADDED", "MODIFIED", "DELETED"}
              THEN Append(before,
                          WsMessage(mapResourceToMessageType(resourceType),
                                    WatchEvent(ev.type, resourceType, ev.name)))
              ELSE before

\* C20: the messages handed to Hub.Broadcast are, in the order of arrival,
\* one message of the type of the resource for every Added, Modified or
\* Deleted event with an object and none for any other event, and receiving
\* an event does not end the subscription.
C20_EventsForwardedInOrder ==
    /\ [](watchSent = ExpectedMessages(watchEvents))
    /\ [][Len(watchEvents') > Len(watchEvents) => watchPc' = "events"]_vars

\* a forwarded event, a skipped one and then another forwarded one
C20_Witness ==
    /\ Len(watchEvents) = 3
    /\ Len(watchSent) = 2
    /\ watchEvents[1].type = "DELETED"
    /\ watchEvents[2].type \in {"BOOKMARK", "ERROR"}
    /\ watchEvents[3].type = "ADDED"
    /\ watchSent[2].payload.name = 3
    /\ watchPc = "events"

\* after a subscription has ended or an open has failed, the goroutine calls
\* Watch again unless it returns on cancellation
WatchReopens ==
    /\ watchPc = "sleep" ~> watchPc \in {"top", "returned"}
    /\ watchPc = "top" ~> watchPc \in {"events", "sleep", "returned"}

\* once the context is cancelled no Watch call is made and no message is
\* handed to Hub.Broadcast
WatchQuietOnceCancelled ==
    [][watchCtxDone => /\ watchSent' = watchSent
                       /\ watchCur' = watchCur
                       /\ watchPc' \notin {"events", "sleep"} \/ watchPc' = watchPc]_vars

\* the goroutine returns once the context is cancelled, and only then
WatchStopsOnCancellation ==
    /\ [](watchPc = "returned" => watchCtxDone)
    /\ watchCtxDone ~> watchPc = "returned"

\* C21: the goroutine returns only on cancellation; after a subscription has
\* ended or an open has failed it calls Watch again; once the context is
\* cancelled it opens no watch, hands no message to Hub.Broadcast and
\* returns, from the backoff sleep as from the event loop.
C21_WatchStopsOnlyOnCancellation ==
    /\ WatchReopens
    /\ WatchStopsOnCancellation
    /\ WatchQuietOnceCancelled

(***************************************************************************)
(* Cancellation of the runs                                                *)
(***************************************************************************)
\* the step of the last record emitted, "" before the first
StepOfLast(records) ==
    IF Len(records) = 0 THEN "" ELSE records[Len(records)].step

\* once the context is cancelled Install and Uninstall emit no record of a
\* step other than the one they are in, but for the terminal record
NoNewStepOnceCancelled ==
    [][orchCancelled /\ emitted' # emitted
          => \/ StepOfLast(emitted') = StepOfLast(emitted)
             \/ emitted'[Len(emitted')].done]_vars

\* once the context is cancelled ApplyBySeverity calls ApplyRemediation on
\* no further item
NoNewApplyOnceCancelled ==
    [][batchCtxDone => ApplyAttempts' = ApplyAttempts]_vars

\* C22: once the context is cancelled an Install or Uninstall run begins no
\* further step and then returns (an operation in flight may finish).
C22_NoNewStepAfterCancel ==
    /\ NoNewStepOnceCancelled
    /\ orchCancelled ~> orchPc = "closed"

(***************************************************************************)
(* The hub and cancellation                                                *)
(***************************************************************************)
\* C23: once the context of Run is cancelled, Run takes the ctx.Done case:
\* it closes the queue of every registered observer, which was open, leaves
\* the other queues alone, empties the registry and returns; no queue is
\* ever closed twice, and after the return nothing is put on any queue.
C23_RunClosesAllOnCancel ==
    /\ [][running /\ ~running'
            => /\ cancelled
               /\ clients' = {}
               /\ \A c \in Clients :
                     closeCount'[c] = IF c \in clients THEN 1 ELSE closeCount[c]]_vars
    /\ [](\A c \in Clients : closeCount[c] <= 1)
    /\ [](~running => clients = {})
    /\ [][~running => \A c \in Clients : Got(c)' = Got(c)]_vars
    /\ cancelled ~> ~running

\* Run has returned on cancellation after closing an observer that had got a
\* message and had asked for nothing, and a message is left undelivered
C23_Witness ==
    /\ ~running
    /\ cancelled
    /\ broadcast # <<>>
    /\ \E c \in Clients :
          /\ closeCount[c] = 1
          /\ Got(c) # <<>>
          /\ ownUnregister[c] = 0
          /\ overflowAt[c] = 0

\* C30 (as claimed): every caller blocked in Register or Unregister, and every
\* goroutine Run started to unregister an overflowing observer, gets its
\* request taken by Run in the end, also when Run has been cancelled.
C30_RegisterUnregisterReturn ==
    \A c \in Clients :
        /\ (c \in register) ~> (c \notin register)
        /\ (unregister[c] > 0) ~> (unregister[c] = 0)

(***************************************************************************)
(* The installed-version wait                                              *)
(***************************************************************************)
\* the positions of waitForCSV
CsvWaitPcs == {"csv_sub_poll", "csv_phase_poll"}

\* the steps of Install after the csv step
StepsAfterCsv == {"rbac", "pods", "bundles", "complete"}

\* C24: waitForCSV reads the subscription at most 30 times and then the CSV
\* at most 30 times, and it returns; when either loop runs out Install sends
\* the error record of step csv as its last record and begins no later step.
C24_CsvWaitBounded ==
    /\ [](orchPc \in CsvWaitPcs => orchI <= 30)
    /\ [][(orchPc \in CsvWaitPcs /\ orchI = 30 /\ orchPc' # orchPc)
            => (orchPc' = "send_error" /\ orchFailed' = "csv")]_vars
    /\ [](orchFailed = "csv"
            => /\ \A k \in 1..Len(emitted) : emitted[k].step \notin StepsAfterCsv
               /\ "create:role" \notin Range(calls)
               /\ orchPc \in {"send_error", "return", "closed"}
               /\ orchPc \in {"return", "closed"}
                     => /\ LastRec.step = "csv"
                        /\ LastRec.done
                        /\ LastRec.error # "")
    /\ orchPc \in CsvWaitPcs ~> orchPc \notin CsvWaitPcs

\* the CSV was named but did not reach Succeeded in 30 reads, without any
\* cancellation, and the run has ended
C24_Witness ==
    /\ orchFailed = "csv"
    /\ csvName # ""
    /\ orchI = 30
    /\ ~orchCancelled
    /\ orchPc = "closed"

(***************************************************************************)
(* The order of the steps of Install                                       *)
(***************************************************************************)
\* the steps in the order C25 gives them
InstallOrder ==
    << "marketplace", "version", "arch", "namespace", "source", "install",
       "csv", "rbac", "pods", "bundles", "complete" >>

\* the place of a step in that order; 0 for the client check ("init"), which
\* precedes every step
StepIndex(step) ==
    IF step = "init" THEN 0
    ELSE CHOOSE i \in 1..Len(InstallOrder) : InstallOrder[i] = step

\* the step whose code issues a create request
StepOfCall(call) ==
    CASE call = "create:namespace" -> "namespace"
      [] call \in {"create:catalogsource", "create:operatorgroup",
                   SubscriptionCall(TRUE), SubscriptionCall(FALSE)} -> "install"
      [] call \in {"create:role", "create:rolebinding"} -> "rbac"

\* C25: in an Install run the steps of the emitted records are steps of the
\* fixed order (after the record of the client check, if any) and never go
\* back, and a request to the control plane is issued by a step only when
\* the last record emitted is one of that step, so after every record of the
\* steps before it.
C25_InstallStepOrder ==
    /\ [](orchOp = "install" =>
            /\ \A k \in 1..Len(emitted) :
                  emitted[k].step \in Range(InstallOrder) \cup {"init"}
            /\ \A k \in 2..Len(emitted) :
                  StepIndex(emitted[k - 1].step) <= StepIndex(emitted[k].step))
    /\ [][(orchOp = "install" /\ calls' # calls)
            => \A k \in (Len(calls) + 1)..Len(calls') :
                  StepOfCall(calls'[k]) = StepOfLast(emitted')]_vars

\* a community install that went through every step to the end
C25_Witness ==
    /\ orchOp = "install"
    /\ orchPc = "closed"
    /\ LastRec.step = "complete"
    /\ "create:catalogsource" \in Range(calls)
    /\ "create:rolebinding" \in Range(calls)
    /\ {emitted[k].step : k \in 1..Len(emitted)} = Range(InstallOrder)

\* the positions of Uninstall right after a step whose failures are tolerated
UninstallTolerated ==
    {"cleanup", "cleanup_done", "subscription_done", "csv_done",
     "operatorgroup_done", "catalogsource_done"}

\* the error records an Uninstall run has sent
UninstallErrors == {k \in 1..Len(emitted) : emitted[k].error # ""}

ChannelCalls ==
    SelectSeq(calls, LAMBDA c : c \in {"create:catalogsource",
        "create:operatorgroup", SubscriptionCall(TRUE), SubscriptionCall(FALSE)})

\* the requests the claim gives for each channel
CertifiedChannel ==
    <<"create:operatorgroup", "create:subscription:stable@redhat-operators">>

CommunityChannel ==
    <<"create:catalogsource", "create:operatorgroup",
      "create:subscription:alpha@compliance-operator">>

IsPrefix(s, t) == Len(s) <= Len(t) /\ s = SubSeq(t, 1, Len(s))

C28_StreamClosedOnEveryReturn ==
    batchOut.returned => batchOut.closed

\* C29: the step that ends a RemoveRemediation call without an error,
\* whether the target was deleted or found already removed, leaves the
\* record's apply flag false whenever a write of the record as the call
\* read it would be accepted
C29_RemoveClearsFlag ==
    [][(/\ remPc \in {"delete", "unmark"}
        /\ remPc' = "idle"
        /\ ~remResults'[Len(remResults')].err
        /\ FlagWriteSucceeds) => ~remRecord'.apply]_vars

(***************************************************************************)
(* Read projections of a remediation record                                *)
(***************************************************************************)
\* the value stored at spec.apply of a record: SetNestedField(rem.Object,
\* true/false, "spec", "apply") stores a boolean, and so does the record as
\* it was first read
SpecApply(rec) == [type |-> "bool", b |-> rec.apply, s |-> ""]

\* unstructured.NestedBool: the value and found = TRUE for a boolean, an
\* error for a value of another type
NestedBool(v) ==
    IF v.type = "bool" THEN [val |-> v.b, found |-> TRUE, err |-> FALSE]
    ELSE [val |-> FALSE, found |-> FALSE, err |-> TRUE]

\* unstructured.NestedString: the value and found = TRUE for a string, ""
\* and an error for a value of another type
NestedString(v) ==
    IF v.type = "string" THEN [val |-> v.s, found |-> TRUE, err |-> FALSE]
    ELSE [val |-> "", found |-> FALSE, err |-> TRUE]

\* ListRemediations: applied from the boolean, else from the string
ListRemediationsApplied(rec) ==
    LET asBool == NestedBool(SpecApply(rec))
        asStr == NestedString(SpecApply(rec))
    IN IF ~asBool.err /\ asBool.found THEN asBool.val
       ELSE IF ~asStr.err /\ asStr.found THEN asStr.val = "true"
       ELSE FALSE

\* GetRemediation: apply, _, _ := NestedString(...); applied := apply == "true"
GetRemediationApplied(rec) == NestedString(SpecApply(rec)).val = "true"

\* extractRelevantData, case "ComplianceRemediation": data["applied"]
extractRelevantDataApplied(rec) == NestedString(SpecApply(rec)).val = "true"

\* C31: the three read projections of an existing remediation record agree
\* with its apply flag: all report applied = true once ApplyRemediation has
\* set it and all report false once RemoveRemediation has cleared it
C31_ProjectionsAgree ==
    remRecord.exists =>
        /\ ListRemediationsApplied(remRecord) = remRecord.apply
        /\ GetRemediationApplied(remRecord) = remRecord.apply
        /\ extractRelevantDataApplied(remRecord) = remRecord.apply

\* the kinds whose requests carry no namespace
ClusterScopedKinds == {"MachineConfig", "APIServer", "KubeletConfig", "OAuth"}

\* the positions of a remediation call at which it addresses the target
TargetRequestPcs ==
    {"create", "get_existing", "update", "mark", "delete", "unmark"}

\* C32: while a remediation call addresses its target object, the request
\* carries no namespace when the target's kind is cluster-scoped, whatever
\* namespace the caller gave or the embedded object declares; for any other
\* kind it carries the embedded object's namespace if it declares one, else
\* the caller's
C32_ClusterScopedWithoutNamespace ==
    remPc \in TargetRequestPcs =>
        IF remLocal.remObj.kind \in ClusterScopedKinds
          THEN remLocal.address.namespace = ""
          ELSE remLocal.address.namespace =
                   IF remLocal.remObj.namespace # ""
                     THEN remLocal.remObj.namespace
                     ELSE RemNamespace

(***************************************************************************)
(* Properties of CheckARMCompatibility                                     *)
(***************************************************************************)
\* the minor number of the ref as written, for a ref "v1." minor [".x"]
MinorText == BeforeFirstDot(TrimPrefix(armIn.coRef, <<"v", "1", ".">>))

\* the ref is v1.M or v1.M.x with M a decimal number without leading zero
IsV1Version ==
    /\ HasPrefix(armIn.coRef, <<"v", "1", ".">>)
    /\ Len(MinorText) > 0
    /\ \A k \in 1..Len(MinorText) : MinorText[k] \in MinorDigits
    /\ Len(MinorText) > 1 => MinorText[1] # "0"

DigitValue(c) == ByteOf(c) - ByteOf("0")

RECURSIVE DecimalValue(_)
DecimalValue(digits) ==
    IF Len(digits) = 0 THEN 0
    ELSE 10 * DecimalValue(SubSeq(digits, 1, Len(digits) - 1))
           + DigitValue(digits[Len(digits)])

\* C33: a call that lists the nodes accepts every ref when no node is
\* arm64; with an arm64 node it accepts a version v1.M.x exactly when
\* M >= 7, for one-digit and for longer minor numbers
C33_ArmAcceptsFromMinorSeven ==
    (armOut.returned /\ armOut.err = "") =>
        /\ ArmNodes(armIn.nodes) = 0 => armOut.compatible
        /\ (ArmNodes(armIn.nodes) > 0 /\ IsV1Version) =>
              (armOut.compatible <=> DecimalValue(MinorText) >= 7)

\* C34: the first failure of a run of other-kind failures waits the base
\* interval, whatever came before it (nothing, an opened watch, or a
\* failure for a kind that is not served), and each further failure of the
\* run waits twice the wait before it, at most the ceiling
C34_OtherFailuresStartAtBase ==
    watchCur.outcome = "other" =>
        IF watchPrev.outcome = "other"
          THEN watchCur.wait = IF 2 * watchPrev.wait > MaxBackoff
                                 THEN MaxBackoff ELSE 2 * watchPrev.wait
          ELSE watchCur.wait = BaseBackoff

(***************************************************************************)
(* Properties of the readiness waits                                       *)
(***************************************************************************)
\* the condition the claim gives for a poll that listed its objects
PollSatisfied ==
    /\ ~pollSeen.err
    /\ IF pollKind = "pods"
         THEN \A k \in 1..Len(pollSeen.items) :
                pollSeen.items[k].phase # "Succeeded" => pollSeen.items[k].ready
         ELSE \A k \in 1..Len(pollSeen.items) : pollSeen.items[k] = "VALID"

\* C35: a readiness wait returns success exactly at a poll whose listing
\* has every non-completed pod ready (every bundle VALID), a listing without
\* such pods (without bundles) included; until then it has not returned
\* success
C35_WaitReturnsAtFirstSatisfiedPoll ==
    pollKind # "none" =>
        /\ pollOut = "nil" => PollSatisfied
        /\ (PollSatisfied /\ pollI < PodPollAttempts) => pollOut = "nil"

\* the listed remediations of the requested severity, in list order
Requested ==
    SelectSeq([i \in 1..Len(remediations) |-> i],
              LAMBDA i : remediations[i].severity = batchIn.severity)

\* the remediations ApplyRemediation was called on so far, in order
Attempted ==
    LET applies == SelectSeq(batchLog, LAMBDA e : e.op = "apply")
    IN [k \in 1..Len(applies) |-> applies[k].name]

\* the remediations a result record was sent for so far, in order
Reported == [k \in 1..Len(progress) |-> progress[k].name]

UninstallTargets ==
    << "ComplianceCheckResults", "ComplianceRemediations", "ComplianceSuites",
       "ComplianceScans", "ScanSettingBindings", "ScanSettings",
       "ProfileBundles", "Profiles", "subscription", "csv", "operatorgroup",
       "catalogsource", "namespace" >>

\* the requests that name each target
PatchOf == [k \in 1..Len(UninstallTargets) |-> "patch:" \o UninstallTargets[k]]

DeleteOf == [k \in 1..Len(UninstallTargets) |-> "delete:" \o UninstallTargets[k]]

\* the place in that order of the target of a patch or delete request
TargetIndex(call) ==
    CHOOSE k \in 1..Len(UninstallTargets) : call = PatchOf[k] \/ call = DeleteOf[k]

IsPatch(call) == \E k \in 1..Len(UninstallTargets) : call = PatchOf[k]

\* the steps a record was sent for so far
StepsBegun == {emitted[k].step : k \in 1..Len(emitted)}

\* C37: the requests of an Uninstall run follow the order of the managed
\* kinds and then subscription, installed-version records, grouping
\* resource, catalog entry, namespace; each deletion of an instance of a
\* managed kind comes right after the removal of its finalizers; and the
\* namespace deletion is requested only once every kind was announced and
\* every earlier step begun and its deletion requested
C37_UninstallRequestOrder ==
    orchOp = "uninstall" =>
        /\ \A j \in 1..Len(calls) - 1 :
              /\ TargetIndex(calls[j]) <= TargetIndex(calls[j + 1])
              /\ IsPatch(calls[j]) =>
                    calls[j + 1] = DeleteOf[TargetIndex(calls[j])]
              /\ (TargetIndex(calls[j]) > 8 /\ calls[j] # "delete:csv") =>
                    TargetIndex(calls[j]) < TargetIndex(calls[j + 1])
        /\ \A j \in 1..Len(calls) :
              /\ IsPatch(calls[j]) => j < Len(calls)
              /\ (TargetIndex(calls[j]) <= 8 /\ ~IsPatch(calls[j])) =>
                    (j > 1 /\ calls[j - 1] = PatchOf[TargetIndex(calls[j])])
        /\ "delete:namespace" \in Range(calls) =>
              /\ {"cleanup", "subscription", "csv", "operatorgroup",
                   "catalogsource", "namespace"} \subseteq StepsBegun
              /\ \A k \in 1..8 :
                    \E m \in 1..Len(emitted) :
                        emitted[m].message = "Removing " \o UninstallTargets[k] \o "..."
              /\ {"delete:subscription", "delete:operatorgroup",
                   "delete:catalogsource"} \subseteq Range(calls)
              /\ calls[Len(calls)] = "delete:namespace"

C37_Witness ==
    /\ orchOp = "uninstall"
    /\ orchPc = "closed"
    /\ "delete:namespace" \in Range(calls)
    /\ "delete:csv" \in Range(calls)
    /\ \A k \in 1..8 : PatchOf[k] \in Range(calls)

C39_WaitedPoolIsAnnouncedPool ==
    \A i \in 1..Len(remResults) :
        (/\ ~remResults[i].nil
         /\ remResults[i].applied
         /\ remResults[i].message.format = "Applied %s %s"
         /\ remResults[i].message.kind = "MachineConfig")
        => \A labels \in RemediationRoleLabels :
               PoolName(detectRole(RemName, labels, remRecord.object))
                 = remResults[i].message.role

\* the letters of "master", in lower and in upper case
MasterLetters ==
    << {"m", "M"}, {"a", "A"}, {"s", "S"}, {"t", "T"}, {"e", "E"}, {"r", "R"} >>

\* the name spells "master" somewhere, in any letter case
MentionsMaster(name) ==
    \E at \in 0..(Len(name) - Len(MasterLetters)) :
        \A k \in 1..Len(MasterLetters) : name[at + k] \in MasterLetters[k]

\* the messages of applied MachineConfig objects among the results
RebootHints ==
    {i \in 1..Len(remResults) :
        /\ ~remResults[i].nil
        /\ remResults[i].applied
        /\ remResults[i].message.format = "Applied %s %s"
        /\ remResults[i].message.kind = "MachineConfig"}

\* C40: the role in the message of an applied MachineConfig is the target
\* object's role label when it has one, otherwise master when the object's
\* name contains "master" in any letter case (also when it contains
\* "worker" too), otherwise worker
C40_MessageRole ==
    \A i \in RebootHints :
        LET target == Submitted(remRecord)
            role == remResults[i].message.role
        IN /\ Len(target.roleLabel) > 0 => role = target.roleLabel[1]
           /\ (Len(target.roleLabel) = 0 /\ MentionsMaster(target.name))
                => role = "master"
           /\ (Len(target.roleLabel) = 0 /\ ~MentionsMaster(target.name))
                => role = "worker"

\* an applied MachineConfig without a role label whose name contains both
\* "worker" and "Master": the message names master
C40_Witness ==
    \E i \in RebootHints :
        /\ Len(Submitted(remRecord).roleLabel) = 0
        /\ MentionsMaster(remResults[i].message.name)
        /\ Contains(remResults[i].message.name,
                    <<"w", "o", "r", "k", "e", "r">>)
        /\ remResults[i].message.role = "master"

====
